---- MODULE Spec2Model ----
(***************************************************************************)
(* Model of genPGM.py: the lowering of a restricted Python syntax tree     *)
(* into a Program Graph Model.  The recursive traversal genPgm is modelled *)
(* as a machine with an explicit stack of traversal frames: entering and   *)
(* leaving a compound statement (FunctionDef, If, For) are the points at   *)
(* which the Python handler recurses into genPgm and then resumes.  The    *)
(* tree being lowered is drawn statement by statement from bounded sets.   *)
(* Python dicts live in a heap of objects so that aliasing between         *)
(* PGMState objects (PGMState.copy passes references) is represented.      *)
(***************************************************************************)
EXTENDS Integers, Sequences, FiniteSets, TLC

VARIABLES
    heap,        \* Python dict objects; a PGMState refers to them by index
    stack,       \* the active genPgm calls on compound statements
    fnNames,     \* the fnNames registry passed to every genPgm call
    functions,   \* the functions emitted so far, in emission order
    lambdaFile,  \* what genFn has written to state.lambdaFile
    status,      \* "run", "done" (document produced) or "failed" (aborted)
    nStmts,      \* statements lowered so far
    nFns,        \* function definitions lowered so far
    lastIf,      \* record of the most recently completed If handler
    lastFor,     \* record of the most recently completed For handler
    tree,        \* the statements lowered so far, in traversal order
    attempt,     \* the statement the last step lowered or failed on
    expr,        \* the expression handed to the expression lowering
    descs,       \* the descriptors that lowering returned
    starts,      \* the "start" entries genPgm has collected at module level
    pgm          \* the document create_pgm_dict returns

vars == <<heap, stack, fnNames, functions, lambdaFile, status, nStmts, nFns,
          lastIf, lastFor, tree, attempt, expr, descs, starts, pgm>>

(***************************************************************************)
(* Bounds of the model.                                                    *)
(***************************************************************************)
MaxStmts == 3
MaxDepth == 2
MaxFns == 2
MaxLit == 2
MaxTop == 2
MaxCompound == 4
MaxNest == 3

(***************************************************************************)
(* Python dict: a sequence of <<key, value>> pairs in insertion order.     *)
(***************************************************************************)
EmptyDict == <<>>

Has(d, k) == \E i \in 1..Len(d) : d[i][1] = k

Get(d, k) == d[CHOOSE i \in 1..Len(d) : d[i][1] = k][2]

Put(d, k, v) ==
    IF Has(d, k)
    THEN [i \in 1..Len(d) |-> IF d[i][1] = k THEN <<k, v>> ELSE d[i]]
    ELSE Append(d, <<k, v>>)

Keys(d) == [i \in 1..Len(d) |-> d[i][1]]

KeySet(d) == {d[i][1] : i \in 1..Len(d)}

Range(s) == {s[i] : i \in 1..Len(s)}

RECURSIVE Flatten(_)
Flatten(ss) == IF ss = <<>> THEN <<>> ELSE Head(ss) \o Flatten(Tail(ss))

SelectMap(s, Test(_), Map(_)) ==
    LET RECURSIVE go(_)
        go(i) == IF i > Len(s) THEN <<>>
                 ELSE (IF Test(s[i]) THEN <<Map(s[i])>> ELSE <<>>) \o go(i + 1)
    IN go(1)

(***************************************************************************)
(* PGMState and PGMState.copy.  An optional argument is <<>> (None) or     *)
(* <<v>>.  lastDefs, nextDefs and varTypes are heap indices: copy passes   *)
(* the reference of self for every argument left out.                      *)
(***************************************************************************)
NoFn == "None"

PGMState(lastDefs, nextDefs, lastDefDefault, fnName, varTypes) ==
    [lastDefs |-> lastDefs, nextDefs |-> nextDefs,
     lastDefDefault |-> IF lastDefDefault # <<>> THEN lastDefDefault[1] ELSE 0,
     fnName |-> fnName, varTypes |-> varTypes]

\* a copy that keeps the lastDefs of self whatever its lastDefs argument is
copy_sharedLastDefs(self, lastDefs, nextDefs, lastDefDefault, fnName, varTypes) ==
    PGMState(
        self.lastDefs,
        IF nextDefs = <<>> THEN self.nextDefs ELSE nextDefs[1],
        IF lastDefDefault = <<>> THEN <<self.lastDefDefault>> ELSE lastDefDefault,
        IF fnName = <<>> THEN self.fnName ELSE fnName[1],
        IF varTypes = <<>> THEN self.varTypes ELSE varTypes[1])

\* a copy that keeps the lastDefDefault of self whatever its argument is
copy_keepDefault(self, lastDefs, nextDefs, lastDefDefault, fnName, varTypes) ==
    PGMState(
        IF lastDefs = <<>> THEN self.lastDefs ELSE lastDefs[1],
        IF nextDefs = <<>> THEN self.nextDefs ELSE nextDefs[1],
        <<self.lastDefDefault>>,
        IF fnName = <<>> THEN self.fnName ELSE fnName[1],
        IF varTypes = <<>> THEN self.varTypes ELSE varTypes[1])

\* a copy that keeps the lastDefs and the nextDefs of self whatever its
\* arguments are
copy_sharedTables(self, lastDefs, nextDefs, lastDefDefault, fnName, varTypes) ==
    PGMState(
        self.lastDefs,
        self.nextDefs,
        IF lastDefDefault = <<>> THEN <<self.lastDefDefault>> ELSE lastDefDefault,
        IF fnName = <<>> THEN self.fnName ELSE fnName[1],
        IF varTypes = <<>> THEN self.varTypes ELSE varTypes[1])

\* a copy that keeps the nextDefs of self whatever its nextDefs argument is
copy_sharedNextDefs(self, lastDefs, nextDefs, lastDefDefault, fnName, varTypes) ==
    PGMState(
        IF lastDefs = <<>> THEN self.lastDefs ELSE lastDefs[1],
        self.nextDefs,
        IF lastDefDefault = <<>> THEN <<self.lastDefDefault>> ELSE lastDefDefault,
        IF fnName = <<>> THEN self.fnName ELSE fnName[1],
        IF varTypes = <<>> THEN self.varTypes ELSE varTypes[1])

copy(self, lastDefs, nextDefs, lastDefDefault, fnName, varTypes) ==
    PGMState(
        IF lastDefs = <<>> THEN self.lastDefs ELSE lastDefs[1],
        IF nextDefs = <<>> THEN self.nextDefs ELSE nextDefs[1],
        IF lastDefDefault = <<>> THEN <<self.lastDefDefault>> ELSE lastDefDefault,
        IF fnName = <<>> THEN self.fnName ELSE fnName[1],
        IF varTypes = <<>> THEN self.varTypes ELSE varTypes[1])

\* create_pgm_dict: state = PGMState(f), three fresh empty dicts
RootHeap == <<EmptyDict, EmptyDict, EmptyDict>>
RootState == PGMState(1, 2, <<>>, NoFn, 3)

(***************************************************************************)
(* getFnName, getLastDef, getNextDef                                       *)
(***************************************************************************)
getFnName(names, basename) ==
    LET fnId == IF basename \in DOMAIN names THEN names[basename] ELSE 0
    IN [name |-> basename \o "_" \o ToString(fnId),
        fnNames |-> [b \in DOMAIN names \cup {basename} |->
                        IF b = basename THEN fnId + 1 ELSE names[b]]]

getLastDef(var, lastDefs, lastDefDefault) ==
    IF Has(lastDefs, var)
    THEN [index |-> Get(lastDefs, var), lastDefs |-> lastDefs]
    ELSE [index |-> lastDefDefault,
          lastDefs |-> Put(lastDefs, var, lastDefDefault)]

\* a getNextDef that does not advance nextDefs
getNextDef_noAdvance(var, lastDefs, nextDefs, lastDefDefault) ==
    LET index == IF Has(nextDefs, var) THEN Get(nextDefs, var)
                 ELSE lastDefDefault + 1
    IN [index |-> index,
        nextDefs |-> Put(nextDefs, var, index),
        lastDefs |-> Put(lastDefs, var, index)]

getNextDef(var, lastDefs, nextDefs, lastDefDefault) ==
    LET index == IF Has(nextDefs, var) THEN Get(nextDefs, var)
                 ELSE lastDefDefault + 1
    IN [index |-> index,
        nextDefs |-> Put(nextDefs, var, index + 1),
        lastDefs |-> Put(lastDefs, var, index)]

(***************************************************************************)
(* The syntax tree (the input).  A node is a record tagged with its class. *)
(***************************************************************************)
Num(n) == [node |-> "Num", n |-> n]
Name(id) == [node |-> "Name", id |-> id]
UnaryOp(op, operand) == [node |-> "UnaryOp", op |-> op, operand |-> operand]
BinOp(left, op, right) ==
    [node |-> "BinOp", left |-> left, op |-> op, right |-> right]
Compare(left, op, right) ==
    [node |-> "Compare", left |-> left, ops |-> <<op>>, comparators |-> <<right>>]
Call(func, args) == [node |-> "Call", func |-> func, args |-> args]
\* an attribute reference: a node of a class that genPgm has no handler for
Attribute(value, attr) == [node |-> "Attribute", value |-> value, attr |-> attr]
\* a tuple of targets: another node of a class without a handler
Tuple(elts) == [node |-> "Tuple", elts |-> elts]

(***************************************************************************)
(* Python numbers.  An int n is num = n, den = 1; a float (the result of   *)
(* operator.truediv, or of operator.pow with a negative exponent) is the   *)
(* quotient num / den.                                                     *)
(***************************************************************************)
PyInt(n) == [float |-> FALSE, num |-> n, den |-> 1]
PyFloat(n, d) == [float |-> TRUE, num |-> n, den |-> d]

RECURSIVE IntPow(_, _)
IntPow(b, e) == IF e = 0 THEN 1 ELSE b * IntPow(b, e - 1)

getDType(val) == IF val.float THEN "real" ELSE "integer"

\* the binops table of the BinOp handler, restricted to the keys that the op
\* of a BinOp node can be (ast.Eq and ast.LtE are operators of Compare nodes)
binops == {"Add", "Sub", "Mult", "Div", "Pow"}

\* binops[type(node.op)](node.left.n, node.right.n).  The operands are the n
\* of Num nodes, hence not negative (a minus sign is a UnaryOp node); raise
\* stands for ZeroDivisionError.
ApplyBinop(op, l, r) ==
    CASE op = "Add" -> [raise |-> FALSE, val |-> PyInt(l + r)]
      [] op = "Sub" -> [raise |-> FALSE, val |-> PyInt(l - r)]
      [] op = "Mult" -> [raise |-> FALSE, val |-> PyInt(l * r)]
      [] op = "Div" -> IF r = 0 THEN [raise |-> TRUE, val |-> PyInt(0)]
                       ELSE [raise |-> FALSE, val |-> PyFloat(l, r)]
      [] op = "Pow" -> [raise |-> FALSE, val |-> PyInt(IntPow(l, r))]

(***************************************************************************)
(* Source descriptors                                                      *)
(***************************************************************************)
Literal(val) == [type |-> "literal", dtype |-> getDType(val), value |-> val]
VarRef(variable, index) == [variable |-> variable, index |-> index]
VarDesc(variable, index) == [var |-> VarRef(variable, index)]
CallDesc(function, inputs) ==
    [call |-> [function |-> function, inputs |-> inputs]]

IsVar(src) == "var" \in DOMAIN src
IsCall(src) == "call" \in DOMAIN src
IsLiteral(src) == "type" \in DOMAIN src

(***************************************************************************)
(* genPgm on expression nodes (Num, Name in Load context, UnaryOp, BinOp,  *)
(* Compare, Call).  The handler reads and updates state.lastDefs; the      *)
(* result carries the descriptors returned, the updated dict and whether   *)
(* an exception was raised.                                                *)
(***************************************************************************)
RECURSIVE genPgmExpr(_, _, _)
RECURSIVE genPgmList(_, _, _)

genPgmExpr(node, lastDefs, lastDefDefault) ==
    CASE node.node = "Num" ->
            [out |-> <<Literal(PyInt(node.n))>>, lastDefs |-> lastDefs,
             exc |-> FALSE]
      [] node.node = "Name" ->
            LET r == getLastDef(node.id, lastDefs, lastDefDefault)
            IN [out |-> <<VarDesc(node.id, r.index)>>, lastDefs |-> r.lastDefs,
                exc |-> FALSE]
      [] node.node = "UnaryOp" ->
            genPgmExpr(node.operand, lastDefs, lastDefDefault)
      [] node.node = "BinOp" ->
            IF /\ node.left.node = "Num" /\ node.right.node = "Num"
               /\ node.op \in binops
            THEN LET r == ApplyBinop(node.op, node.left.n, node.right.n)
                 IN IF r.raise
                    THEN [out |-> <<>>, lastDefs |-> lastDefs, exc |-> TRUE]
                    ELSE [out |-> <<Literal(r.val)>>, lastDefs |-> lastDefs,
                          exc |-> FALSE]
            ELSE LET l == genPgmExpr(node.left, lastDefs, lastDefDefault)
                     r == genPgmExpr(node.right, l.lastDefs, lastDefDefault)
                 IN [out |-> l.out \o r.out, lastDefs |-> r.lastDefs,
                     exc |-> l.exc \/ r.exc]
      [] node.node = "Compare" ->
            LET l == genPgmExpr(node.left, lastDefs, lastDefDefault)
                r == genPgmList(node.comparators, l.lastDefs, lastDefDefault)
            IN [out |-> l.out \o Flatten(r.out), lastDefs |-> r.lastDefs,
                exc |-> l.exc \/ r.exc]
      [] node.node = "Call" ->
            LET r == genPgmList(node.args, lastDefs, lastDefDefault)
            IN [out |-> <<CallDesc(node.func, r.out)>>, lastDefs |-> r.lastDefs,
                exc |-> r.exc]
      \* no handler: a message on stderr, and return []
      [] OTHER -> [out |-> <<>>, lastDefs |-> lastDefs, exc |-> FALSE]

\* [genPgm(cur, state, fnNames) for cur in nodes]: one descriptor list per node
genPgmList(nodes, lastDefs, lastDefDefault) ==
    IF nodes = <<>>
    THEN [out |-> <<>>, lastDefs |-> lastDefs, exc |-> FALSE]
    ELSE LET h == genPgmExpr(Head(nodes), lastDefs, lastDefDefault)
             t == genPgmList(Tail(nodes), h.lastDefs, lastDefDefault)
         IN [out |-> <<h.out>> \o t.out, lastDefs |-> t.lastDefs,
             exc |-> h.exc \/ t.exc]

(***************************************************************************)
(* make_call_body_dict, make_fn_dict, make_body_dict                       *)
(***************************************************************************)
FlatMap(s, F(_)) == Flatten([i \in 1..Len(s) |-> F(s[i])])

make_call_body_dict(source, dest) ==
    <<[name |-> source.call.function, type |-> "function"]>> \o
    FlatMap(source.call.inputs,
            LAMBDA ip : FlatMap(ip,
                LAMBDA types :
                    IF IsVar(types)
                    THEN IF dest = "fn"
                         THEN <<[name |-> types.var.variable, type |-> "variable"]>>
                         ELSE <<[name |-> types.var.variable,
                                 index |-> types.var.index]>>
                    ELSE <<>>))

\* the body of an assign function is a list holding one lambda reference
\* (the reference field, a line number, is left out); it is modelled as that
\* one record so that it has the type of the literal payload replacing it
make_fn_dict(name, target, sources, lambdaName) ==
    [name |-> name, type |-> "assign", target |-> target.var.variable,
     sources |-> FlatMap(sources,
                    LAMBDA src :
                        IF IsCall(src) THEN make_call_body_dict(src, "fn")
                        ELSE IF IsVar(src)
                        THEN <<[name |-> src.var.variable, type |-> "variable"]>>
                        ELSE <<>>),
     body |-> [type |-> "lambda", name |-> lambdaName]]

\* a body record named after the variable it assigns
make_body_dict_targetName(name, target, sources) ==
    [name |-> target.var.variable, output |-> target.var,
     input |-> FlatMap(sources,
                    LAMBDA src :
                        IF IsCall(src) THEN make_call_body_dict(src, "body")
                        ELSE IF IsVar(src) THEN <<src.var>>
                        ELSE <<>>)]

make_body_dict(name, target, sources) ==
    [name |-> name, output |-> target.var,
     input |-> FlatMap(sources,
                    LAMBDA src :
                        IF IsCall(src) THEN make_call_body_dict(src, "body")
                        ELSE IF IsVar(src) THEN <<src.var>>
                        ELSE <<>>)]

(***************************************************************************)
(* f"{sources[0]['value']}": the text Python writes for a number.  An int  *)
(* is written with its digits.  A float is written by float.__repr__: the  *)
(* shortest decimal that rounds to the same IEEE double, and of those the  *)
(* nearest to it.  The double of num / den is computed exactly: a natural  *)
(* number is a sequence of limbs, digits in base Base, least significant   *)
(* first and without leading zero limbs (<<>> is zero).  The arithmetic    *)
(* stays within the machine integers for den * Base < 2^31.                *)
(***************************************************************************)
Base == 10000

RECURSIVE BigTrim(_)
BigTrim(a) ==
    IF a # <<>> /\ a[Len(a)] = 0 THEN BigTrim(SubSeq(a, 1, Len(a) - 1)) ELSE a

RECURSIVE BigFromInt(_)
BigFromInt(n) == IF n = 0 THEN <<>> ELSE <<n % Base>> \o BigFromInt(n \div Base)

Limb(a, i) == IF i <= Len(a) THEN a[i] ELSE 0

RECURSIVE BigAddFrom(_, _, _, _)
BigAddFrom(a, b, i, carry) ==
    IF i > Len(a) /\ i > Len(b) THEN BigFromInt(carry)
    ELSE LET t == Limb(a, i) + Limb(b, i) + carry
         IN <<t % Base>> \o BigAddFrom(a, b, i + 1, t \div Base)

BigAdd(a, b) == BigAddFrom(a, b, 1, 0)

\* a * k for a small k (k * Base stays within the machine integers)
RECURSIVE BigMulSmallFrom(_, _, _, _)
BigMulSmallFrom(a, k, i, carry) ==
    IF i > Len(a) THEN BigFromInt(carry)
    ELSE LET t == a[i] * k + carry
         IN <<t % Base>> \o BigMulSmallFrom(a, k, i + 1, t \div Base)

BigMulSmall(a, k) == IF k = 0 THEN <<>> ELSE BigMulSmallFrom(a, k, 1, 0)

RECURSIVE BigMulFrom(_, _, _)
BigMulFrom(a, b, i) ==
    IF i > Len(b) THEN <<>>
    ELSE BigAdd(BigMulSmall(a, b[i]), <<0>> \o BigMulFrom(a, b, i + 1))

BigMul(a, b) == BigTrim(BigMulFrom(a, b, 1))

\* floor(a / k) for a small k
RECURSIVE BigDivSmallFrom(_, _, _, _)
BigDivSmallFrom(a, k, i, rem) ==
    IF i = 0 THEN <<>>
    ELSE LET t == rem * Base + a[i]
         IN BigDivSmallFrom(a, k, i - 1, t % k) \o <<t \div k>>

BigDivSmall(a, k) == BigTrim(BigDivSmallFrom(a, k, Len(a), 0))

\* a mod k for a small k
RECURSIVE BigModSmallFrom(_, _, _, _)
BigModSmallFrom(a, k, i, rem) ==
    IF i = 0 THEN rem
    ELSE BigModSmallFrom(a, k, i - 1, (rem * Base + a[i]) % k)

BigModSmall(a, k) == BigModSmallFrom(a, k, Len(a), 0)

\* -1, 0, 1 as a is less than, equal to, greater than b
RECURSIVE BigCmpFrom(_, _, _)
BigCmpFrom(a, b, i) ==
    IF i = 0 THEN 0
    ELSE IF a[i] < b[i] THEN -1
    ELSE IF a[i] > b[i] THEN 1
    ELSE BigCmpFrom(a, b, i - 1)

BigCmp(a, b) ==
    IF Len(a) < Len(b) THEN -1
    ELSE IF Len(a) > Len(b) THEN 1
    ELSE BigCmpFrom(a, b, Len(a))

\* a * 2^s, floor(a / 2^s), a * 10^j and floor(a / 10^j), a limb or a
\* dozen bits at a time
RECURSIVE BigMulPow2(_, _)
BigMulPow2(a, s) ==
    IF s >= 12 THEN BigMulPow2(BigMulSmall(a, 4096), s - 12)
    ELSE BigMulSmall(a, IntPow(2, s))

RECURSIVE BigDivPow2(_, _)
BigDivPow2(a, s) ==
    IF s >= 12 THEN BigDivPow2(BigDivSmall(a, 4096), s - 12)
    ELSE BigDivSmall(a, IntPow(2, s))

BigMulPow10(a, j) ==
    IF a = <<>> THEN <<>>
    ELSE [i \in 1..(j \div 4) |-> 0] \o BigMulSmall(a, IntPow(10, j % 4))

BigDivPow10(a, j) ==
    BigDivSmall(SubSeq(a, j \div 4 + 1, Len(a)), IntPow(10, j % 4))

\* the decimal digits of a, most significant first
RECURSIVE BigToDigits(_)
BigToDigits(a) ==
    IF a = <<>> THEN <<>>
    ELSE BigToDigits(BigDivSmall(a, 10)) \o <<a[1] % 10>>

\* a double has MantissaBits significant bits
MantissaBits == 53
\* repr writes at most MaxDigits significant digits
MaxDigits == 17

TwoToMantissa == BigMulPow2(<<1>>, MantissaBits - 1)

\* floor(log2(num / den))
RECURSIVE Exp2(_, _)
Exp2(num, den) ==
    IF num < den THEN Exp2(num, (den - 1) \div 2 + 1) - 1
    ELSE IF num \div den >= 2 THEN Exp2(num \div 2, den) + 1
    ELSE 0

\* the double nearest to num / den, ties to the even mantissa: m / 2^s with
\* m of MantissaBits bits.  floor(num * 2^s / den) has that many bits, and
\* the remainder of the division decides the rounding.
ToDouble(num, den) ==
    LET s == MantissaBits - 1 - Exp2(num, den)
        scaled == BigMulPow2(BigFromInt(num), s)
        quot == BigDivSmall(scaled, den)
        r == BigModSmall(scaled, den)
        odd == quot[1] % 2 = 1
        up == 2 * r > den \/ (2 * r = den /\ odd)
        m == IF up THEN BigAdd(quot, <<1>>) ELSE quot
    IN IF BigCmp(m, BigMulSmall(TwoToMantissa, 2)) = 0
       THEN [m |-> TwoToMantissa, s |-> s - 1]
       ELSE [m |-> m, s |-> s]

\* floor(log10(num / den))
RECURSIVE Exp10(_, _)
Exp10(num, den) ==
    IF num < den THEN Exp10(num, (den - 1) \div 10 + 1) - 1
    ELSE IF num \div den >= 10 THEN Exp10(num \div 10, den) + 1
    ELSE 0

\* the double x = m / 2^s in units of 10^(e - MaxDigits + 1), where e is the
\* decimal exponent of x: c = floor(x / unit) has MaxDigits digits
RECURSIVE Scale(_, _, _)
Scale(m, s, e) ==
    LET c == BigDivPow2(BigMulPow10(m, MaxDigits - 1 - e), s)
    IN IF BigCmp(c, BigMulPow10(<<1>>, MaxDigits - 1)) < 0
       THEN Scale(m, s, e - 1)
       ELSE IF BigCmp(c, BigMulPow10(<<1>>, MaxDigits)) >= 0
       THEN Scale(m, s, e + 1)
       ELSE [c |-> c, e |-> e]

\* the decimal of k digits that repr writes for the double m / 2^s, or <<>>
\* when no decimal of k digits rounds to it.  A decimal v rounds to the
\* double when it lies within half the distance to the neighbouring doubles
\* (a quarter below a power of two), the ends included for an even mantissa.
\* All quantities are scaled by 2^(s + 2) / unit.
Candidate(m, s, sc, k) ==
    LET unit == BigMulPow10(<<1>>, MaxDigits - 1 - sc.e)
        mid == BigMul(BigMulSmall(m, 4), unit)
        below == IF m = TwoToMantissa THEN unit ELSE BigMulSmall(unit, 2)
        above == BigMulSmall(unit, 2)
        closed == m[1] % 2 = 0
        lo == BigDivPow10(sc.c, MaxDigits - k)
        hi == BigAdd(lo, <<1>>)
        V(c) == BigMulPow2(BigMulPow10(c, MaxDigits - k), s + 2)
        In(c) ==
            LET l == BigCmp(BigAdd(V(c), below), mid)
                h == BigCmp(V(c), BigAdd(mid, above))
            IN IF closed THEN l >= 0 /\ h <= 0 ELSE l > 0 /\ h < 0
        nearer == BigCmp(BigAdd(V(lo), V(hi)), BigMulSmall(mid, 2))
    IN IF In(lo) /\ In(hi)
       THEN IF nearer > 0 THEN <<lo>>
            ELSE IF nearer < 0 THEN <<hi>>
            ELSE IF lo[1] % 2 = 0 THEN <<lo>> ELSE <<hi>>
       ELSE IF In(lo) THEN <<lo>>
       ELSE IF In(hi) THEN <<hi>>
       ELSE <<>>

\* the shortest decimal that rounds to the double: its digits and the
\* decimal exponent of the first of them
RECURSIVE Shortest(_, _, _, _)
Shortest(m, s, sc, k) ==
    LET c == Candidate(m, s, sc, k)
    IN IF c = <<>> THEN Shortest(m, s, sc, k + 1)
       ELSE LET ds == BigToDigits(c[1])
            IN [digits |-> ds, exp |-> sc.e + (Len(ds) - k)]

RECURSIVE StripZeros(_)
StripZeros(ds) ==
    IF Len(ds) > 1 /\ ds[Len(ds)] = 0 THEN StripZeros(SubSeq(ds, 1, Len(ds) - 1))
    ELSE ds

RECURSIVE DigitString(_)
DigitString(ds) ==
    IF ds = <<>> THEN "" ELSE ToString(Head(ds)) \o DigitString(Tail(ds))

RECURSIVE Zeros(_)
Zeros(n) == IF n <= 0 THEN "" ELSE "0" \o Zeros(n - 1)

\* the layout of repr: plain notation for exponents from -4 to 15, else the
\* first digit, the others after a point, and the exponent in two digits
FormatRepr(ds, e) ==
    IF e >= 16 \/ e < -4
    THEN DigitString(<<ds[1]>>)
         \o (IF Len(ds) > 1 THEN "." \o DigitString(Tail(ds)) ELSE "")
         \o (IF e < 0 THEN "e-" ELSE "e+")
         \o (LET a == IF e < 0 THEN -e ELSE e
             IN IF a < 10 THEN "0" \o ToString(a) ELSE ToString(a))
    ELSE IF e < 0
    THEN "0." \o Zeros(-e - 1) \o DigitString(ds)
    ELSE IF Len(ds) <= e + 1
    THEN DigitString(ds) \o Zeros(e + 1 - Len(ds)) \o ".0"
    ELSE DigitString(SubSeq(ds, 1, e + 1)) \o "."
         \o DigitString(SubSeq(ds, e + 2, Len(ds)))

\* repr of the float num / den, for num >= 0 and den > 0
PyStrFloat(num, den) ==
    IF num = 0 THEN "0.0"
    ELSE LET x == ToDouble(num, den)
             sc == Scale(x.m, x.s, Exp10(num, den))
             r == Shortest(x.m, x.s, sc, 1)
         IN FormatRepr(StripZeros(r.digits), r.exp)

PyStr(val) ==
    IF ~val.float THEN ToString(val.num)
    ELSE IF val.num < 0 THEN "-" \o PyStrFloat(-val.num, val.den)
    ELSE PyStrFloat(val.num, val.den)

\* getVarType: the domain of the annotation List[dType]; <<>> stands for
\* sys.exit(1)
getVarType(dType) ==
    CASE dType = "float" -> <<"real">>
      [] dType = "int" -> <<"integer">>
      [] dType = "str" -> <<"str">>
      [] OTHER -> <<>>

(***************************************************************************)
(* The inputs: the names and the expressions a tree is built from.         *)
(***************************************************************************)
Vars == {"x", "y"}
IndexVars == {"i"}
Annotations == {"int"}

\* function definitions: f(x: List[int], i: List[int]) and g()
FnDefs == {[name |-> "f", args |-> <<[arg |-> "x", annotation |-> "int"],
                                     [arg |-> "i", annotation |-> "int"]>>],
           [name |-> "g", args |-> <<>>]}

\* right-hand sides of assignments: 1, y, x + i, h(x)
Values ==
    {Num(1), Name("y"),
     BinOp(Name("x"), "Add", Name("i")),
     Call("h", <<Name("x")>>)}

\* targets of declarations
DeclVars == {"y"}

\* right-hand sides of annotated assignments
AnnValues == {Num(1)}

\* iterated expressions of for statements: range(1, 5), range(x, y), y,
\* range(x), range(1, x + 1)
Iters ==
    {Call("range", <<Num(1), Num(5)>>),
     Call("range", <<Name("x"), Name("y")>>),
     Name("y"),
     Call("range", <<Name("x")>>),
     Call("range", <<Num(1), BinOp(Name("x"), "Add", Num(1))>>)}

\* the targets and iterated expressions of for statements: the index
\* variables over the iterated expressions and, over range(x, y), the
\* targets i, x and i.j
ForStmts ==
    {[target |-> Name(i), iter |-> iter] : i \in IndexVars, iter \in Iters}
    \cup
    {[target |-> t, iter |-> Call("range", <<Name("x"), Name("y")>>)] :
        t \in {Tuple(<<Name("i"), Name("x")>>), Attribute(Name("i"), "j")}}

\* expression statements: h(x), x, x.y
ExprStmts == {Call("h", <<Name("x")>>), Name("x"), Attribute(Name("x"), "y")}

\* tests of if statements
Tests == {Compare(Name("x"), "LtE", Num(1))}

(***************************************************************************)
(* Frames.  Every frame holds the PGMState its statements are lowered      *)
(* under and the body records they have returned so far.  The fields ev,   *)
(* wrote and refd are history: the reads and writes made under this        *)
(* frame's state, and the variables written and referenced under it or     *)
(* under a branch nested in it.                                            *)
(***************************************************************************)
Top == stack[Len(stack)]

SetTop(f) == [stack EXCEPT ![Len(stack)] = f]

RECURSIVE ReadsOf(_)
ReadsOf(srcs) ==
    FlatMap(srcs,
        LAMBDA src :
            IF IsVar(src)
            THEN <<[op |-> "r", var |-> src.var.variable, ver |-> src.var.index,
                   by |-> "stmt"]>>
            ELSE IF IsCall(src)
            THEN FlatMap(src.call.inputs, LAMBDA ip : ReadsOf(ip))
            ELSE <<>>)

WriteOf(ref) ==
    [op |-> "w", var |-> ref.variable, ver |-> ref.index, by |-> "stmt"]

\* the write that the merge of an if makes
MergeOf(ref) ==
    [op |-> "w", var |-> ref.variable, ver |-> ref.index, by |-> "merge"]

VarsOf(evs) == {evs[i].var : i \in 1..Len(evs)}

\* snapLast, snapNext and snapTypes are the dicts of the enclosing state as
\* they are when the lowering of the nested statements begins
FnFrame(state, args) ==
    [kind |-> "fn", state |-> state, body |-> <<>>, pgms |-> 0, args |-> args,
     snapLast |-> heap[RootState.lastDefs],
     snapNext |-> heap[RootState.nextDefs],
     snapTypes |-> heap[RootState.varTypes],
     ev |-> <<>>, wrote |-> {}, refd |-> {}]

\* genPgm on a Name in Store context, and on a Subscript in Store context
\* whose value is a Name: getLastDef, then getNextDef
genPgmStore(id, lastDefs, nextDefs, lastDefDefault) ==
    LET a == getLastDef(id, lastDefs, lastDefDefault)
        b == getNextDef(id, a.lastDefs, nextDefs, lastDefDefault)
    IN [out |-> <<VarDesc(id, b.index)>>, lastDefs |-> b.lastDefs,
        nextDefs |-> b.nextDefs]

\* sys.exit(1) or an uncaught exception while lowering the statement tok:
\* the process ends without a document; what has been written to the lambda
\* file stays written
Lowered(tok) == tree' = Append(tree, tok) /\ attempt' = tok

Fail(tok) ==
    /\ status' = "failed"
    /\ attempt' = tok
    /\ heap' = RootHeap
    /\ stack' = <<>>
    /\ fnNames' = <<>>
    /\ functions' = <<>>
    /\ nStmts' = 0 /\ nFns' = 0
    /\ lastIf' = [valid |-> FALSE] /\ lastFor' = [valid |-> FALSE]
    /\ tree' = <<>>
    /\ starts' = <<>>
    /\ UNCHANGED <<lambdaFile, expr, descs, pgm>>

(***************************************************************************)
(* FunctionDef handler, up to the recursion into node.body                 *)
(***************************************************************************)
RECURSIVE genPgmArgs(_, _)
genPgmArgs(args, varTypes) ==
    IF args = <<>> THEN [ok |-> TRUE, varTypes |-> varTypes]
    ELSE LET t == getVarType(Head(args).annotation)
         IN IF t = <<>> THEN [ok |-> FALSE, varTypes |-> varTypes]
            ELSE genPgmArgs(Tail(args), Put(varTypes, Head(args).arg, t[1]))

FunctionDef_Enter(name, args) ==
    /\ status = "run" /\ stack = <<>> /\ nFns < MaxFns
    /\ LET tok == [stmt |-> "FunctionDef", name |-> name, args |-> args]
           state == RootState
           localDefs == Len(heap) + 1
           localNext == Len(heap) + 2
           localTypes == Len(heap) + 3
           fnState == copy(state, <<localDefs>>, <<localNext>>, <<>>, <<name>>,
                           <<localTypes>>)
           a == genPgmArgs(args, heap[state.varTypes])
       IN IF ~a.ok THEN Fail(tok)
          ELSE /\ heap' = heap \o <<heap[state.lastDefs], heap[state.nextDefs],
                                    a.varTypes>>
               /\ stack' = <<FnFrame(fnState, [i \in 1..Len(args) |-> args[i].arg])>>
               /\ nFns' = nFns + 1
               /\ Lowered(tok)
               /\ UNCHANGED <<fnNames, functions, lambdaFile, status, nStmts,
                              lastIf, lastFor, expr, descs,
                   starts, pgm>>

(***************************************************************************)
(* FunctionDef handler, after node.body has been lowered: the container.   *)
(* localTypes[var] raises KeyError for a variable without a domain.        *)
(***************************************************************************)
FunctionDef_Exit ==
    /\ status = "run" /\ stack # <<>> /\ Top.kind = "fn"
    /\ LET localDefs == heap[Top.state.lastDefs]
           localTypes == heap[Top.state.varTypes]
           variables == Keys(localDefs)
           fnDef == [name |-> Top.state.fnName, type |-> "container",
                     input |-> [i \in 1..Len(Top.args) |->
                                  [name |-> Top.args[i],
                                   domain |-> Get(localTypes, Top.args[i])]],
                     variables |-> [i \in 1..Len(variables) |->
                                      [name |-> variables[i],
                                       domain |-> Get(localTypes, variables[i])]],
                     body |-> Top.body]
       IN IF \E i \in 1..Len(variables) : ~Has(localTypes, variables[i])
          THEN Fail([stmt |-> "EndFunctionDef"])
          ELSE /\ functions' = Append(functions, fnDef)
               /\ stack' = <<>>
               /\ Lowered([stmt |-> "EndFunctionDef"])
               /\ UNCHANGED <<heap, fnNames, lambdaFile, status, nStmts, nFns,
                              lastIf, lastFor, expr, descs,
                   starts, pgm>>

(***************************************************************************)
(* create_pgm_dict returns: the document holds the functions emitted       *)
(***************************************************************************)
\* the start field with the last collected entry in place of the first
StartOf_last(start) == IF start # <<>> THEN start[Len(start)] ELSE ""

\* create_pgm_dict: pgm["start"] becomes its first entry, "" when there is none
StartOf(start) == IF start # <<>> THEN start[1] ELSE ""

NoPgm == [valid |-> FALSE]

\* the Module handler has merged every statement's result and
\* create_pgm_dict returns the document
Finish ==
    /\ status = "run" /\ stack = <<>>
    /\ status' = "done"
    /\ Lowered([stmt |-> "EndModule"])
    /\ pgm' = [valid |-> TRUE, start |-> StartOf(starts),
               functions |-> functions]
    /\ UNCHANGED <<heap, stack, fnNames, functions, lambdaFile, nStmts, nFns,
                   lastIf, lastFor, expr, descs, starts>>

(***************************************************************************)
(* Statements outside any function: state.fnName is None, and genPgm       *)
(* answers a node that is no list, Module or FunctionDef before it reaches *)
(* any handler                                                             *)
(***************************************************************************)
ExprStmt(value) == [node |-> "Expr", value |-> value]
IfStmt(test, body, orelse) ==
    [node |-> "If", test |-> test, body |-> body, orelse |-> orelse]
AssignStmt(target, value) ==
    [node |-> "Assign", target |-> target, value |-> value]
PassStmt == [node |-> "Pass"]

RECURSIVE genPgmTop(_)
genPgmTop(node) ==
    CASE node.node = "Call" -> <<node.func>>
      [] node.node = "Expr" -> genPgmTop(node.value)
      [] node.node = "If" ->
           Flatten([i \in 1..Len(node.body) |-> genPgmTop(node.body[i])])
      [] OTHER -> <<>>

TopTest == Compare(Name("x"), "LtE", Num(1))
TopStmts ==
    {ExprStmt(Call("main", <<>>)),
     ExprStmt(Name("x")),
     AssignStmt("x", Num(1)),
     IfStmt(TopTest, <<ExprStmt(Call("go", <<>>))>>, <<>>),
     IfStmt(TopTest, <<PassStmt>>, <<ExprStmt(Call("stop", <<>>))>>),
     IfStmt(TopTest,
            <<IfStmt(TopTest, <<AssignStmt("x", Num(1)),
                                ExprStmt(Call("go", <<>>))>>, <<>>)>>,
            <<>>)}

TopLevelTokens == {k \in 1..Len(tree) : tree[k].stmt = "TopLevel"}

\* one statement of the module body that is not a function definition:
\* the Module handler adds what genPgm returns for it to the merged result
TopLevel(node) ==
    /\ status = "run" /\ stack = <<>>
    /\ Cardinality(TopLevelTokens) < MaxTop
    /\ starts' = starts \o genPgmTop(node)
    /\ Lowered([stmt |-> "TopLevel", top |-> node])
    /\ UNCHANGED <<heap, stack, fnNames, functions, lambdaFile, status, nStmts,
                   nFns, lastIf, lastFor, expr, descs, pgm>>

(***************************************************************************)
(* Assign and AnnAssign handlers (one target, a Name or a Subscript)       *)
(***************************************************************************)
\* what genFn writes: the def line with its inputs, and the return value
genFn(file, fnName, returnVal, inputs) ==
    Append(file, [name |-> fnName, inputs |-> inputs, returnVal |-> returnVal])

\* the source_list of the Assign handler; src["call"]["inputs"][0] raises
\* IndexError for a call without arguments
source_list(sources) ==
    FlatMap(sources,
        LAMBDA src :
            IF IsVar(src) THEN <<src.var.variable>>
            ELSE IF IsCall(src)
            THEN <<src.call.function>> \o
                 FlatMap(src.call.inputs[1],
                         LAMBDA ip : IF IsVar(ip) THEN <<ip.var.variable>> ELSE <<>>)
            ELSE <<>>)

var_list(sources) ==
    FlatMap(sources,
        LAMBDA src : IF IsVar(src) THEN <<src.var.variable>> ELSE <<>>)

LiteralPayload(fn, sources) ==
    IF fn.sources = <<>> /\ Len(sources) = 1
    THEN [fn EXCEPT !.body = [type |-> "literal", dtype |-> sources[1].dtype,
                              value |-> PyStr(sources[1].value)]]
    ELSE fn

\* the part the two handlers share; ann is <<>> for Assign and <<dType>> for
\* AnnAssign
AssignTo(targetId, value, ann) ==
    LET tok == IF ann = <<>>
               THEN [stmt |-> "Assign", target |-> targetId, value |-> value]
               ELSE [stmt |-> "AnnAssign", target |-> targetId,
                     annotation |-> ann[1], value |-> value]
        st == Top.state
        src == genPgmExpr(value, heap[st.lastDefs], st.lastDefDefault)
        sources == src.out
        tgt == genPgmStore(targetId, src.lastDefs, heap[st.nextDefs],
                           st.lastDefDefault)
        target == tgt.out[1]
        varType == IF ann = <<>> THEN <<>> ELSE getVarType(ann[1])
        n1 == getFnName(fnNames, st.fnName \o "__assign__" \o targetId)
        n2 == getFnName(n1.fnNames, st.fnName \o "__lambda__" \o targetId)
        fn == make_fn_dict(n1.name, target, sources, n2.name)
        body == make_body_dict(n1.name, target, sources)
        raises == \/ src.exc
                  \/ ann # <<>> /\ varType = <<>>
                  \/ /\ ann = <<>>
                     /\ \E i \in 1..Len(sources) :
                           IsCall(sources[i]) /\ sources[i].call.inputs = <<>>
    IN IF raises THEN Fail(tok)
       ELSE /\ heap' = [heap EXCEPT
                          ![st.lastDefs] = tgt.lastDefs,
                          ![st.nextDefs] = tgt.nextDefs,
                          ![st.varTypes] = IF ann = <<>> THEN @
                                           ELSE Put(@, targetId, varType[1])]
            /\ fnNames' = n2.fnNames
            /\ lambdaFile' = genFn(lambdaFile, n2.name, targetId,
                                   IF ann = <<>> THEN source_list(sources)
                                   ELSE var_list(sources))
            /\ functions' = Append(functions, LiteralPayload(fn, sources))
            /\ stack' = SetTop([Top EXCEPT
                          !.body = Append(@, body),
                          !.pgms = @ + 1,
                          !.ev = @ \o ReadsOf(sources) \o <<WriteOf(target.var)>>,
                          !.wrote = @ \cup {targetId},
                          !.refd = @ \cup VarsOf(ReadsOf(sources)) \cup {targetId}])
            /\ nStmts' = nStmts + 1
            /\ Lowered(tok)
            /\ UNCHANGED <<status, nFns, lastIf, lastFor, expr, descs,
                   starts, pgm>>

Assign(targetId, value) ==
    /\ status = "run" /\ stack # <<>> /\ nStmts < MaxStmts
    /\ AssignTo(targetId, value, <<>>)

AnnAssign(targetId, annotation, value) ==
    /\ status = "run" /\ stack # <<>> /\ nStmts < MaxStmts
    /\ AssignTo(targetId, value, <<annotation>>)

\* AnnAssign whose value is a list display (a declaration, y: List[int] = []):
\* the target is lowered as a Name in Store context and its type registered
AnnAssign_List(targetId, annotation) ==
    /\ status = "run" /\ stack # <<>> /\ nStmts < MaxStmts
    /\ LET tok == [stmt |-> "AnnAssignList", target |-> targetId,
                   annotation |-> annotation]
           st == Top.state
           tgt == genPgmStore(targetId, heap[st.lastDefs], heap[st.nextDefs],
                              st.lastDefDefault)
           target == tgt.out[1]
           varType == getVarType(annotation)
       IN IF varType = <<>> THEN Fail(tok)
          ELSE /\ heap' = [heap EXCEPT
                             ![st.lastDefs] = tgt.lastDefs,
                             ![st.nextDefs] = tgt.nextDefs,
                             ![st.varTypes] = Put(@, targetId, varType[1])]
               /\ stack' = SetTop([Top EXCEPT
                             !.ev = @ \o <<WriteOf(target.var)>>,
                             !.wrote = @ \cup {targetId},
                             !.refd = @ \cup {targetId}])
               /\ nStmts' = nStmts + 1
               /\ Lowered(tok)
               /\ UNCHANGED <<fnNames, functions, lambdaFile, status, nFns,
                              lastIf, lastFor, expr, descs, starts, pgm>>

(***************************************************************************)
(* If handler, up to the recursion into node.body: the condition variable, *)
(* its assign function and body record, and the branch states.             *)
(***************************************************************************)
None == "None"

Depth == Len(stack) - 1

\* a module of ifs and loops only may hold MaxCompound of them
CompoundOnly ==
    \A k \in 1..Len(tree) :
        tree[k].stmt \notin {"Assign", "AnnAssign", "AnnAssignList", "Expr",
                              "Pass"}
RoomForCompound ==
    nStmts < MaxStmts \/ (nStmts < MaxCompound /\ CompoundOnly)
\* ... and may nest its ifs MaxNest deep
RoomToNest ==
    Depth < MaxDepth \/ (Depth < MaxNest /\ CompoundOnly)

If_Enter(test) ==
    /\ status = "run" /\ stack # <<>> /\ RoomForCompound /\ RoomToNest
    /\ LET state == Top.state
           c == genPgmExpr(test, heap[state.lastDefs], state.lastDefDefault)
           condSrcs == c.out
           nextDefs == heap[state.nextDefs]
           condNum == IF Has(nextDefs, "#cond") THEN Get(nextDefs, "#cond")
                      ELSE state.lastDefDefault + 1
           condName == "IF_" \o ToString(condNum)
           n1 == getFnName(fnNames,
                           state.fnName \o "__condition__" \o condName)
           condOutput == VarRef(condName, 0)
           n2 == getFnName(n1.fnNames, state.fnName \o "__lambda__" \o condName)
           \* with more than two descriptors the handler iterates over each
           \* descriptor as if it were a list: src["var"] on the key "var" of a
           \* variable descriptor raises TypeError
           raises == \/ c.exc
                     \/ /\ Len(condSrcs) > 2
                        /\ \E i \in 1..Len(condSrcs) : IsVar(condSrcs[i])
           sources == IF Len(condSrcs) > 2 THEN <<>>
                      ELSE SelectMap(condSrcs, IsVar,
                               LAMBDA src : [name |-> src.var.variable,
                                             type |-> "variable"])
           inputs == IF Len(condSrcs) > 2 THEN <<>>
                     ELSE SelectMap(condSrcs, IsVar, LAMBDA src : src.var)
           fn == [name |-> n1.name, type |-> "assign", target |-> condName,
                  sources |-> sources,
                  body |-> [type |-> "lambda", name |-> n2.name]]
           body == [name |-> n1.name, output |-> condOutput, input |-> inputs]
           lastDefs == Put(c.lastDefs, condName, 0)
           startDefs == Len(heap) + 1
           ifDefs == Len(heap) + 2
           elseDefs == Len(heap) + 3
           ifState == copy(state, <<ifDefs>>, <<>>, <<>>, <<>>, <<>>)
           elseState == copy(state, <<elseDefs>>, <<>>, <<>>, <<>>, <<>>)
           condEv == ReadsOf(condSrcs) \o <<WriteOf(condOutput)>>
       IN IF raises THEN Fail([stmt |-> "If", test |-> test])
          ELSE /\ heap' = [heap EXCEPT
                             ![state.lastDefs] = lastDefs,
                             ![state.nextDefs] = Put(@, "#cond", condNum + 1),
                             ![state.varTypes] = Put(@, condName, "boolean")]
                          \o <<lastDefs, lastDefs, lastDefs>>
               /\ fnNames' = n2.fnNames
               /\ functions' = Append(functions, fn)
               /\ lambdaFile' = genFn(lambdaFile, n2.name, None,
                                      [i \in 1..Len(sources) |-> sources[i].name])
               /\ stack' = Append(
                     SetTop([Top EXCEPT
                               !.ev = @ \o condEv,
                               !.wrote = @ \cup {condName},
                               !.refd = @ \cup VarsOf(condEv)]),
                     [kind |-> "then", state |-> ifState, body |-> <<body>>,
                      pgms |-> 0,
                      elseState |-> elseState, startDefs |-> startDefs,
                      ifDefs |-> ifDefs, elseDefs |-> elseDefs,
                      condOutput |-> condOutput,
                      snapLast |-> lastDefs,
                      snapNext |-> Put(nextDefs, "#cond", condNum + 1),
                      snapTypes |-> Put(heap[state.varTypes], condName,
                                        "boolean"),
                      ev |-> <<>>, wrote |-> {}, refd |-> {},
                      ifEv |-> <<>>, ifWrote |-> {}, ifRefd |-> {}])
               /\ nStmts' = nStmts + 1
               /\ Lowered([stmt |-> "If", test |-> test])
               /\ UNCHANGED <<status, nFns, lastIf, lastFor, expr, descs,
                   starts, pgm>>

(***************************************************************************)
(* If handler: genPgm(node.body, ifState) has returned, and                *)
(* genPgm(node.orelse, elseState) is entered                               *)
(***************************************************************************)
If_Else ==
    /\ status = "run" /\ stack # <<>> /\ Top.kind = "then"
    /\ stack' = SetTop([Top EXCEPT
                          !.kind = "else", !.state = Top.elseState,
                          !.pgms = 0,
                          !.ifEv = Top.ev, !.ifWrote = Top.wrote,
                          !.ifRefd = Top.refd,
                          !.ev = <<>>, !.wrote = {}, !.refd = {}])
    /\ Lowered([stmt |-> "Else"])
    /\ UNCHANGED <<heap, fnNames, functions, lambdaFile, status, nStmts, nFns,
                   lastIf, lastFor, expr, descs,
                   starts, pgm>>

(***************************************************************************)
(* If handler, after both branches have been lowered: the decision         *)
(* functions.  updatedDefs is built by iterating over a Python set of      *)
(* strings, whose order is not determined by the program: order is any     *)
(* arrangement of the updated variables.                                   *)
(***************************************************************************)
Perms(S) ==
    {p \in [1..Cardinality(S) -> S] : \A i, j \in 1..Cardinality(S) :
                                          i # j => p[i] # p[j]}

OptGet(d, k) == IF Has(d, k) THEN <<Get(d, k)>> ELSE <<>>

updatedDefs(startDefs, ifDefs, elseDefs) ==
    {var \in KeySet(startDefs) \cup KeySet(ifDefs) \cup KeySet(elseDefs) :
        \/ ~Has(startDefs, var)
        \/ Get(ifDefs, var) # Get(startDefs, var)
        \/ Get(elseDefs, var) # Get(startDefs, var)}

defVersions(key, startDefs, ifDefs, elseDefs) ==
    OptGet(startDefs, key) \o OptGet(ifDefs, key) \o OptGet(elseDefs, key)

\* decision inputs that hold one candidate only
DecisionInputs_oneCandidate(condOutput, updatedDef, versions) ==
    <<condOutput, VarRef(updatedDef, versions[1])>>

DecisionInputs(condOutput, updatedDef, versions) ==
    IF Len(versions) > 1
    THEN <<condOutput,
           VarRef(updatedDef, versions[Len(versions)]),
           VarRef(updatedDef, versions[Len(versions) - 1])>>
    ELSE <<condOutput, VarRef(updatedDef, versions[1])>>

\* the loop over defVersions; acc carries the dicts of the enclosing state,
\* the registry and the records emitted so far
RECURSIVE Decisions(_, _, _)
Decisions(order, c, acc) ==
    IF order = <<>> THEN acc
    ELSE LET updatedDef == Head(order)
             versions == defVersions(updatedDef, c.startDefs, c.ifDefs, c.elseDefs)
             inputs == DecisionInputs(c.condOutput, updatedDef, versions)
             d == getNextDef(updatedDef, acc.lastDefs, acc.nextDefs,
                             c.lastDefDefault)
             output == VarRef(updatedDef, d.index)
             n == getFnName(acc.fnNames,
                            c.fnName \o "__decision__" \o updatedDef)
             fn == [name |-> n.name, type |-> "assign", target |-> updatedDef,
                    sources |-> [i \in 1..Len(inputs) |->
                        [name |-> inputs[i].variable \o "_" \o
                                  ToString(inputs[i].index),
                         type |-> "variable"]]]
             body == [name |-> n.name, output |-> output, input |-> inputs]
         IN Decisions(Tail(order), c,
                [lastDefs |-> d.lastDefs, nextDefs |-> d.nextDefs,
                 fnNames |-> n.fnNames, fns |-> Append(acc.fns, fn),
                 body |-> Append(acc.body, body)])

\* what the merge of the if on top of the stack works on: the three tables
\* and the state of the enclosing scope
MergeInputs ==
    LET state == stack[Len(stack) - 1].state
    IN [startDefs |-> heap[Top.startDefs], ifDefs |-> heap[Top.ifDefs],
        elseDefs |-> heap[Top.elseDefs], condOutput |-> Top.condOutput,
        fnName |-> state.fnName,
        lastDefDefault |-> state.lastDefDefault]

\* the orders in which the loop over defVersions can visit the updated
\* variables: updatedDefs is built by iterating a set of strings
MergeOrders ==
    Perms(updatedDefs(heap[Top.startDefs], heap[Top.ifDefs],
                      heap[Top.elseDefs]))

\* the decision functions and records made when the variables are visited
\* in the given order
MergeOutcome(order) ==
    LET state == stack[Len(stack) - 1].state
    IN Decisions(order, MergeInputs,
                 [lastDefs |-> heap[state.lastDefs],
                  nextDefs |-> heap[state.nextDefs],
                  fnNames |-> fnNames, fns |-> <<>>, body |-> <<>>])

If_Exit ==
    /\ status = "run" /\ stack # <<>> /\ Top.kind = "else"
    /\ LET parent == stack[Len(stack) - 1]
           state == parent.state
           startDefs == heap[Top.startDefs]
           ifDefs == heap[Top.ifDefs]
           elseDefs == heap[Top.elseDefs]
       IN \E order \in MergeOrders :
            LET m == MergeOutcome(order)
                mergeEv == [i \in 1..Len(m.body) |-> MergeOf(m.body[i].output)]
            IN /\ heap' = [heap EXCEPT ![state.lastDefs] = m.lastDefs,
                                       ![state.nextDefs] = m.nextDefs]
               /\ fnNames' = m.fnNames
               /\ functions' = functions \o m.fns
               /\ stack' = Append(SubSeq(stack, 1, Len(stack) - 2),
                     [parent EXCEPT
                        !.body = @ \o Top.body \o m.body,
                        !.pgms = @ + 1,
                        !.ev = @ \o mergeEv,
                        !.wrote = @ \cup Top.ifWrote \cup Top.wrote
                                    \cup VarsOf(mergeEv),
                        !.refd = @ \cup Top.ifRefd \cup Top.refd
                                   \cup VarsOf(mergeEv)])
               /\ lastIf' = [valid |-> TRUE, condOutput |-> Top.condOutput,
                             startDefs |-> startDefs, ifDefs |-> ifDefs,
                             elseDefs |-> elseDefs,
                             ifWrote |-> Top.ifWrote, elseWrote |-> Top.wrote,
                             lastDefDefault |-> state.lastDefDefault,
                             body |-> Top.body \o m.body,
                             decisions |-> m.body, fns |-> m.fns]
               /\ Lowered([stmt |-> "EndIf"])
               /\ UNCHANGED <<lambdaFile, status, nStmts, nFns, lastFor,
                              expr, descs,
                   starts, pgm>>

(***************************************************************************)
(* For handler: the checks of the range call                               *)
(***************************************************************************)
\* a descriptor (a dict) compared with a str by the in operator of a list
DictEqualsStr(d, str) == FALSE

\* "type" in ip and ip["type"] == "literal", where ip is the list of
\* descriptors of one argument of range: the in operator looks for the
\* string among the elements of the list
IsLiteralBound(ip) ==
    /\ \E j \in 1..Len(ip) : DictEqualsStr(ip[j], "type")
    /\ IsLiteral(ip[1]) /\ ip[1].type = "literal"

\* an iteration range with its endpoints exchanged
IterationRange_exchanged(rangeCall) ==
    [start |-> rangeCall.inputs[2][1], end |-> rangeCall.inputs[1][1]]

IterationRange(rangeCall) ==
    [start |-> rangeCall.inputs[1][1], end |-> rangeCall.inputs[2][1]]

(***************************************************************************)
(* For handler: genPgm(node.orelse, state, fnNames) is entered.  The else   *)
(* part is lowered first, under the state of the for statement itself.     *)
(***************************************************************************)
For_Orelse ==
    /\ status = "run" /\ stack # <<>> /\ RoomForCompound /\ Depth < MaxDepth
    /\ stack' = Append(stack,
                  [kind |-> "orelse", state |-> Top.state, body |-> <<>>,
                   pgms |-> 0,
                   snapLast |-> heap[Top.state.lastDefs],
                   snapNext |-> heap[Top.state.nextDefs],
                   snapTypes |-> heap[Top.state.varTypes],
                   ev |-> <<>>, wrote |-> {}, refd |-> {}])
    /\ nStmts' = nStmts + 1
    /\ Lowered([stmt |-> "ForElse"])
    /\ UNCHANGED <<heap, fnNames, functions, lambdaFile, status, nFns,
                   lastIf, lastFor, expr, descs, starts, pgm>>

(***************************************************************************)
(* For handler, after node.orelse has been lowered and up to the recursion *)
(* into node.body: the else part must have lowered to nothing; the index   *)
(* variable, the iterated expression and its checks, and the loop state.   *)
(***************************************************************************)
\* genPgm on the target of a for statement: a Name in Store context gives
\* one descriptor; a Tuple and an Attribute have no handler and give none
genPgmTarget(target, lastDefs, nextDefs, lastDefDefault) ==
    IF target.node = "Name"
    THEN genPgmStore(target.id, lastDefs, nextDefs, lastDefDefault)
    ELSE [out |-> <<>>, lastDefs |-> lastDefs, nextDefs |-> nextDefs]

For_Enter(target, iter) ==
    /\ status = "run" /\ stack # <<>> /\ Top.kind = "orelse"
    /\ LET tok == [stmt |-> "For", target |-> target, iter |-> iter]
           enclosing == stack[Len(stack) - 1]
           state == Top.state
           elseLowered == Top.pgms # 0
           indexVar == genPgmTarget(target, heap[state.lastDefs],
                                    heap[state.nextDefs], state.lastDefDefault)
           badTarget == Len(indexVar.out) # 1 \/ ~IsVar(indexVar.out[1])
           indexName == indexVar.out[1].var.variable
           it == genPgmExpr(iter, indexVar.lastDefs, state.lastDefDefault)
           loopIter == it.out
           notRange == \/ Len(loopIter) # 1
                       \/ ~IsCall(loopIter[1])
                       \/ loopIter[1].call.function # "range"
           rangeCall == loopIter[1].call
           badRange == \/ Len(rangeCall.inputs) # 2
                       \/ Len(rangeCall.inputs[1]) # 1
                       \/ Len(rangeCall.inputs[2]) # 1
                       \/ IsLiteralBound(rangeCall.inputs[1])
                       \/ IsLiteralBound(rangeCall.inputs[2])
           iterationRange == IterationRange(rangeCall)
           loopLastDef == Len(heap) + 1
           loopNextDef == Len(heap) + 2
           loopState == copy(state, <<loopLastDef>>, <<loopNextDef>>, <<-1>>,
                             <<>>, <<>>)
           headEv == <<WriteOf(indexVar.out[1].var)>> \o ReadsOf(loopIter)
       IN IF \/ elseLowered \/ badTarget
             \/ it.exc \/ notRange \/ badRange
          THEN Fail(tok)
          ELSE /\ heap' = [heap EXCEPT ![state.lastDefs] = it.lastDefs,
                                       ![state.nextDefs] = indexVar.nextDefs]
                          \o <<EmptyDict, EmptyDict>>
               /\ stack' = SubSeq(stack, 1, Len(stack) - 2) \o
                     <<[enclosing EXCEPT
                          !.ev = @ \o Top.ev \o headEv,
                          !.wrote = @ \cup Top.wrote \cup {indexName},
                          !.refd = @ \cup Top.refd \cup VarsOf(headEv)],
                       [kind |-> "loop", state |-> loopState, body |-> <<>>,
                        pgms |-> 0,
                        indexName |-> indexName,
                        iterationRange |-> iterationRange, iter |-> iter,
                        treeStart |-> Len(tree) + 1,
                        snapLast |-> it.lastDefs, snapNext |-> indexVar.nextDefs,
                        snapTypes |-> heap[state.varTypes],
                        ev |-> <<>>, wrote |-> {}, refd |-> {}]>>
               /\ Lowered(tok)
               /\ UNCHANGED <<fnNames, functions, lambdaFile, status, nStmts,
                              nFns, lastIf, lastFor, expr, descs,
                              starts, pgm>>

(***************************************************************************)
(* For handler, after node.body has been lowered: the loop plate and the   *)
(* call record of the enclosing fragment                                   *)
(***************************************************************************)
\* the variables of the loop, the index variable included
LoopVariables_withIndex(loopLastDef, indexName) == Keys(loopLastDef)

LoopVariables(loopLastDef, indexName) ==
    SelectSeq(Keys(loopLastDef), LAMBDA x : x # indexName)

For_Exit ==
    /\ status = "run" /\ stack # <<>> /\ Top.kind = "loop"
    /\ LET parent == stack[Len(stack) - 1]
           state == parent.state
           variables == LoopVariables(heap[Top.state.lastDefs], Top.indexName)
           n == getFnName(fnNames,
                          state.fnName \o "__loop_plate__" \o Top.indexName)
           loopFn == [name |-> n.name, type |-> "loop_plate",
                      input |-> variables,
                      index_variable |-> Top.indexName,
                      index_iteration_range |-> Top.iterationRange,
                      body |-> Top.body]
           loopCall == [name |-> n.name, inputs |-> variables,
                        output |-> EmptyDict]
       IN /\ fnNames' = n.fnNames
          /\ functions' = Append(functions, loopFn)
          /\ stack' = Append(SubSeq(stack, 1, Len(stack) - 2),
                             [parent EXCEPT !.body = Append(@, loopCall),
                                            !.pgms = @ + 1])
          /\ lastFor' = [valid |-> TRUE, loopFn |-> loopFn,
                         loopCall |-> loopCall,
                         target |-> tree[Top.treeStart].target,
                         iter |-> Top.iter,
                         stmts |-> SubSeq(tree, Top.treeStart + 1, Len(tree)),
                         functions |-> Append(functions, loopFn),
                         loopBody |-> Top.body,
                         wrote |-> Top.wrote, refd |-> Top.refd,
                         snapLast |-> Top.snapLast, snapNext |-> Top.snapNext,
                         lastDefs |-> heap[state.lastDefs],
                         nextDefs |-> heap[state.nextDefs],
                         fragment |-> <<loopCall>>]
          /\ Lowered([stmt |-> "EndFor"])
          /\ UNCHANGED <<heap, lambdaFile, status, nStmts, nFns, lastIf,
                         expr, descs,
                   starts, pgm>>

(***************************************************************************)
(* Expr handler: a statement that is an expression                         *)
(***************************************************************************)
Expr(value) ==
    /\ status = "run" /\ stack # <<>> /\ nStmts < MaxStmts
    /\ LET state == Top.state
           e == genPgmExpr(value, heap[state.lastDefs], state.lastDefDefault)
           exprs == e.out
           raises == \/ e.exc
                     \/ \E i \in 1..Len(exprs) :
                           \/ ~IsCall(exprs[i])
                           \/ \E j \in 1..Len(exprs[i].call.inputs) :
                                 Len(exprs[i].call.inputs[j]) # 1
           bodies == [i \in 1..Len(exprs) |->
                        [function |-> exprs[i].call.function,
                         output |-> EmptyDict,
                         input |-> SelectMap(exprs[i].call.inputs,
                                      LAMBDA arg : IsVar(arg[1]),
                                      LAMBDA arg : arg[1].var)]]
       IN IF raises THEN Fail([stmt |-> "Expr", value |-> value])
          ELSE /\ heap' = [heap EXCEPT ![state.lastDefs] = e.lastDefs]
               /\ stack' = SetTop([Top EXCEPT
                             !.body = @ \o bodies,
                             !.pgms = @ + 1,
                             !.ev = @ \o ReadsOf(exprs),
                             !.refd = @ \cup VarsOf(ReadsOf(exprs))])
               /\ nStmts' = nStmts + 1
               /\ Lowered([stmt |-> "Expr", value |-> value])
               /\ UNCHANGED <<fnNames, functions, lambdaFile, status, nFns,
                              lastIf, lastFor, expr, descs,
                   starts, pgm>>

(***************************************************************************)
(* A statement without a handler (pass): genPgm reports it on stderr and   *)
(* returns the empty list                                                  *)
(***************************************************************************)
Pass ==
    /\ status = "run" /\ stack # <<>> /\ nStmts < MaxStmts
    /\ nStmts' = nStmts + 1
    /\ Lowered([stmt |-> "Pass"])
    /\ UNCHANGED <<heap, stack, fnNames, functions, lambdaFile, status, nFns,
                   lastIf, lastFor, expr, descs, starts, pgm>>

(***************************************************************************)
(* The lowering run                                                        *)
(***************************************************************************)
NoIf == [valid |-> FALSE]
NoFor == [valid |-> FALSE]

Init ==
    /\ heap = RootHeap
    /\ stack = <<>>
    /\ fnNames = <<>>
    /\ functions = <<>>
    /\ lambdaFile = <<>>
    /\ status = "run"
    /\ nStmts = 0
    /\ nFns = 0
    /\ lastIf = NoIf
    /\ lastFor = NoFor
    /\ tree = <<>>
    /\ attempt = [stmt |-> "Module"]
    /\ expr = Num(0)
    /\ descs = <<>>
    /\ starts = <<>>
    /\ pgm = NoPgm

Next ==
    \/ \E d \in FnDefs : FunctionDef_Enter(d.name, d.args)
    \/ FunctionDef_Exit
    \/ \E t \in Vars, v \in Values : Assign(t, v)
    \/ \E t \in Vars, a \in Annotations, v \in AnnValues : AnnAssign(t, a, v)
    \/ \E t \in DeclVars, a \in Annotations : AnnAssign_List(t, a)
    \/ \E test \in Tests : If_Enter(test)
    \/ If_Else
    \/ If_Exit
    \/ For_Orelse
    \/ \E f \in ForStmts : For_Enter(f.target, f.iter)
    \/ For_Exit
    \/ \E value \in ExprStmts : Expr(value)
    \/ Pass
    \/ Finish

Spec == Init /\ [][Next]_vars

\* modules with statements between and around their function definitions
TopValues == {Num(1), Name("x")}
NextTop ==
    \/ \E node \in TopStmts : TopLevel(node)
    \/ \E d \in FnDefs : FunctionDef_Enter(d.name, d.args)
    \/ FunctionDef_Exit
    \/ \E v \in TopValues : Assign("x", v)
    \/ Finish

SpecTop == Init /\ [][NextTop]_vars

(***************************************************************************)
(* Uniqueness of function names                                            *)
(***************************************************************************)
FunctionNames == {functions[i].name : i \in 1..Len(functions)}

\* C1: in the document of a translation run the names of all functions
\* (assign, condition, decision, loop_plate and container) are pairwise
\* distinct.
C1_NamesDistinct ==
    status = "done" =>
        \A i, j \in 1..Len(functions) :
            i # j => functions[i].name # functions[j].name

(***************************************************************************)
(* Referential closure                                                     *)
(***************************************************************************)
\* the body records of the document: those of containers and loop plates
DocBodies ==
    FlatMap(functions,
        LAMBDA fn : IF fn.type \in {"container", "loop_plate"} THEN fn.body
                    ELSE <<>>)

\* the function named by the name field of a body record
NameRefs(rec) == IF "name" \in DOMAIN rec THEN {rec.name} ELSE {}

\* the functions named by the function field of a body record and by the
\* function-typed entries of its input list
CalleeRefs(rec) ==
    (IF "function" \in DOMAIN rec THEN {rec.function} ELSE {}) \cup
    (IF "input" \in DOMAIN rec
     THEN {rec.input[k].name :
             k \in {k \in 1..Len(rec.input) :
                      /\ "type" \in DOMAIN rec.input[k]
                      /\ rec.input[k].type = "function"}}
     ELSE {})

RECURSIVE CallsIn(_)
CallsIn(node) ==
    CASE node.node = "Call" ->
            {node.func} \cup UNION {CallsIn(node.args[k]) : k \in 1..Len(node.args)}
      [] node.node = "BinOp" -> CallsIn(node.left) \cup CallsIn(node.right)
      [] node.node = "Compare" ->
            CallsIn(node.left) \cup CallsIn(node.comparators[1])
      [] node.node = "UnaryOp" -> CallsIn(node.operand)
      [] OTHER -> {}

\* the callees written in the statements of the tree
CalleesOf(t) ==
    UNION {IF "value" \in DOMAIN t[k] THEN CallsIn(t[k].value) ELSE {} :
             k \in 1..Len(t)}

\* C2 as stated: every function name referenced by a body record (its name or
\* function field, or a function-typed entry of its input list), in a
\* container or in a loop plate, names a function of the functions list.
C2_AllReferencesResolve ==
    status = "done" =>
        \A k \in 1..Len(DocBodies) :
            NameRefs(DocBodies[k]) \cup CalleeRefs(DocBodies[k]) \subseteq FunctionNames

\* C2 as amended: the name field of every body record names a function of the
\* functions list (a loop plate for a loop call record, an assign function
\* otherwise); a function field or function-typed input entry is the callee
\* as written in the source, whether or not the document defines it.
C2_NameFieldsResolve ==
    status = "done" =>
        \A k \in 1..Len(DocBodies) :
            LET rec == DocBodies[k] IN
            /\ "name" \in DOMAIN rec =>
                  \E i \in 1..Len(functions) :
                      /\ functions[i].name = rec.name
                      /\ functions[i].type =
                            IF "inputs" \in DOMAIN rec THEN "loop_plate" ELSE "assign"
            /\ CalleeRefs(rec) \subseteq CalleesOf(tree)

\* a document with a loop call record, a record of a loop plate body, and a
\* callee that the document does not define
C2_Witness ==
    /\ status = "done"
    /\ \E k \in 1..Len(DocBodies) : "inputs" \in DOMAIN DocBodies[k]
    /\ \E i \in 1..Len(functions) :
          functions[i].type = "loop_plate" /\ functions[i].body # <<>>
    /\ \E k \in 1..Len(DocBodies) : ~(CalleeRefs(DocBodies[k]) \subseteq FunctionNames)

(***************************************************************************)
(* Version monotonicity                                                    *)
(***************************************************************************)
\* in a sequence of reads and writes under one state: a write gets a higher
\* version than every earlier write to the variable, and a read gets no
\* higher version than the most recent earlier write to the variable
MonotoneEv(ev) ==
    \A j \in 1..Len(ev) : \A i \in 1..(j - 1) :
        (ev[i].op = "w" /\ ev[i].var = ev[j].var) =>
            /\ ev[j].op = "w" => ev[i].ver < ev[j].ver
            /\ (/\ ev[j].op = "r"
                /\ \A k \in (i + 1)..(j - 1) :
                      ~(ev[k].op = "w" /\ ev[k].var = ev[j].var))
               => ev[j].ver <= ev[i].ver

\* C3: within a single scope, successive writes to a variable (those of
\* if-merges included) get strictly increasing versions, and a read never
\* returns a version higher than that of the most recent preceding write.
C3_VersionsMonotone ==
    \A k \in 1..Len(stack) :
        /\ MonotoneEv(stack[k].ev)
        /\ stack[k].kind = "else" => MonotoneEv(stack[k].ifEv)

\* a scope in which a variable is written, then read, then written by the
\* merge of an if
C3_Witness ==
    /\ lastIf.valid
    /\ \E k \in 1..Len(stack) :
          LET ev == stack[k].ev IN
          \E i, j, l \in 1..Len(ev) :
              /\ i < j /\ j < l
              /\ ev[i].op = "w" /\ ev[j].op = "r" /\ ev[l].op = "w"
              /\ ev[i].var = ev[j].var /\ ev[j].var = ev[l].var
              /\ \E d \in 1..Len(lastIf.decisions) :
                    lastIf.decisions[d].output = VarRef(ev[l].var, ev[l].ver)

(***************************************************************************)
(* Decision functions of an if                                             *)
(***************************************************************************)
\* the decision records that the last merge made for x
DecisionsFor(x) ==
    {d \in 1..Len(lastIf.decisions) : lastIf.decisions[d].output.variable = x}

\* the variables written in a branch of the last if
BranchWritten == lastIf.ifWrote \cup lastIf.elseWrote

\* the decision records are the end of the fragment of the if, one for each
\* written variable, and the condition output is among the inputs of each
OneDecisionEach ==
    /\ Len(lastIf.decisions) <= Len(lastIf.body)
    /\ SubSeq(lastIf.body, Len(lastIf.body) - Len(lastIf.decisions) + 1,
              Len(lastIf.body)) = lastIf.decisions
    /\ \A x \in BranchWritten :
          /\ Cardinality(DecisionsFor(x)) = 1
          /\ \A d \in DecisionsFor(x) :
                lastIf.condOutput \in Range(lastIf.decisions[d].input)

\* both branches wrote x: the then version and the else version are inputs
BothVersionsMerged ==
    \A x \in lastIf.ifWrote \cap lastIf.elseWrote : \A d \in DecisionsFor(x) :
        /\ Get(lastIf.ifDefs, x) # Get(lastIf.elseDefs, x)
        /\ VarRef(x, Get(lastIf.ifDefs, x)) \in Range(lastIf.decisions[d].input)
        /\ VarRef(x, Get(lastIf.elseDefs, x)) \in Range(lastIf.decisions[d].input)

\* the dict of the branch that wrote x, when one branch only did
WriterDefs(x) == IF x \in lastIf.ifWrote THEN lastIf.ifDefs ELSE lastIf.elseDefs
OtherDefs(x) == IF x \in lastIf.ifWrote THEN lastIf.elseDefs ELSE lastIf.ifDefs

OneBranchOnly ==
    (lastIf.ifWrote \cup lastIf.elseWrote) \ (lastIf.ifWrote \cap lastIf.elseWrote)

\* C4 as stated: after an if/else is lowered there is exactly one decision for
\* each variable x that a branch wrote, with the condition output among its
\* inputs; the inputs include the then and the else version when both
\* branches wrote x, and the version of the writing branch and the baseline
\* version of x when one branch only wrote x.
C4_BaselineAlwaysMerged ==
    lastIf.valid =>
        /\ OneDecisionEach
        /\ BothVersionsMerged
        /\ \A x \in OneBranchOnly : \A d \in DecisionsFor(x) :
              /\ VarRef(x, Get(WriterDefs(x), x)) \in Range(lastIf.decisions[d].input)
              /\ Has(lastIf.startDefs, x)
              /\ VarRef(x, Get(lastIf.startDefs, x))
                    \in Range(lastIf.decisions[d].input)

\* C4 as amended: the same, except that the baseline version is an input
\* only when x had a version before the if; when it had none and the other
\* branch left x without a version, the inputs are the condition output and
\* the version of the writing branch, and nothing else.
C4_BaselineMergedWhenDefined ==
    lastIf.valid =>
        /\ OneDecisionEach
        /\ BothVersionsMerged
        /\ \A x \in OneBranchOnly : \A d \in DecisionsFor(x) :
              LET input == lastIf.decisions[d].input IN
              /\ VarRef(x, Get(WriterDefs(x), x)) \in Range(input)
              /\ Has(lastIf.startDefs, x) =>
                    /\ VarRef(x, Get(lastIf.startDefs, x)) \in Range(input)
                    /\ Len(input) = 3
              /\ (~Has(lastIf.startDefs, x) /\ ~Has(OtherDefs(x), x)) =>
                    input = <<lastIf.condOutput, VarRef(x, Get(WriterDefs(x), x))>>

\* an if/else whose two branches wrote the same variable, just merged
C4_Witness ==
    /\ lastIf.valid /\ attempt.stmt = "EndIf"
    /\ \E x \in lastIf.ifWrote \cap lastIf.elseWrote :
          /\ Has(lastIf.startDefs, x)
          /\ DecisionsFor(x) # {}

\* C5: the first input of every decision record is the condition output and
\* two candidates follow: the then version and then the else version when
\* both branches updated the variable, the latest version and then the
\* baseline version when one branch only updated it.
C5_CandidateOrder ==
    lastIf.valid =>
        \A d \in 1..Len(lastIf.decisions) :
            LET input == lastIf.decisions[d].input
                x == lastIf.decisions[d].output.variable
                thenUpdated == /\ Has(lastIf.ifDefs, x)
                               /\ OptGet(lastIf.ifDefs, x) # OptGet(lastIf.startDefs, x)
                elseUpdated == /\ Has(lastIf.elseDefs, x)
                               /\ OptGet(lastIf.elseDefs, x) # OptGet(lastIf.startDefs, x)
            IN /\ input[1] = lastIf.condOutput
               /\ (thenUpdated /\ elseUpdated) =>
                     /\ Len(input) = 3
                     /\ input[2] = VarRef(x, Get(lastIf.ifDefs, x))
                     /\ input[3] = VarRef(x, Get(lastIf.elseDefs, x))
               /\ (thenUpdated /\ ~elseUpdated /\ Has(lastIf.startDefs, x)) =>
                     /\ Len(input) = 3
                     /\ input[2] = VarRef(x, Get(lastIf.ifDefs, x))
                     /\ input[3] = VarRef(x, Get(lastIf.startDefs, x))
               /\ (elseUpdated /\ ~thenUpdated /\ Has(lastIf.startDefs, x)) =>
                     /\ Len(input) = 3
                     /\ input[2] = VarRef(x, Get(lastIf.elseDefs, x))
                     /\ input[3] = VarRef(x, Get(lastIf.startDefs, x))

(***************************************************************************)
(* Lowering of one expression: a binary operator, or a comparison, between *)
(* two literals.  expr is the node, descs the descriptors genPgm returns.  *)
(***************************************************************************)
Literals == 0..MaxLit

\* the operators that the binops table of the BinOp handler names: those of
\* BinOp nodes, and those of Compare nodes
ArithOps == {"Add", "Sub", "Mult", "Div", "Pow"}
CompareOps == {"Eq", "LtE"}

LiteralExprs ==
    {BinOp(Num(l), op, Num(r)) : l \in Literals, r \in Literals, op \in ArithOps}
    \cup
    {Compare(Num(l), op, Num(r)) : l \in Literals, r \in Literals,
                                   op \in CompareOps}

\* the state of the body of a function f: the copy that the FunctionDef
\* handler makes, with fresh dicts
ExprState == copy(RootState, <<4>>, <<5>>, <<>>, <<"f">>, <<6>>)

InitExpr ==
    /\ heap = RootHeap \o <<EmptyDict, EmptyDict, EmptyDict>>
    /\ stack = <<FnFrame(ExprState, <<>>)>>
    /\ fnNames = <<>>
    /\ functions = <<>>
    /\ lambdaFile = <<>>
    /\ status = "run"
    /\ nStmts = 0
    /\ nFns = 1
    /\ lastIf = NoIf
    /\ lastFor = NoFor
    /\ tree = <<>>
    /\ attempt = [stmt |-> "Module"]
    /\ expr \in LiteralExprs
    /\ descs = <<>>
    /\ starts = <<>>
    /\ pgm = NoPgm

\* genPgm(expr, state, fnNames) under the state of a function body
\* (state.fnName is not None, so that the handlers of BinOp and Compare run)
LowerExpr ==
    /\ status = "run" /\ stack # <<>> /\ Top.state.fnName # NoFn
    /\ LET state == Top.state
           r == genPgmExpr(expr, heap[state.lastDefs], state.lastDefDefault)
       IN /\ descs' = r.out
          /\ status' = IF r.exc THEN "failed" ELSE "done"
          /\ heap' = [heap EXCEPT ![state.lastDefs] = r.lastDefs]
    /\ UNCHANGED <<stack, fnNames, functions, lambdaFile, nStmts, nFns,
                   lastIf, lastFor, tree, attempt, expr,
                   starts, pgm>>

NextExpr == LowerExpr

SpecExpr == InitExpr /\ [][NextExpr]_vars

\* the operator of expr applied to its two literals is defined
Defined(op, l, r) == ~(op = "Div" /\ r = 0)

\* val is the number that the arithmetic operator gives
IsArith(val, op, l, r) ==
    CASE op = "Add" -> val.num = (l + r) * val.den
      [] op = "Sub" -> val.num = (l - r) * val.den
      [] op = "Mult" -> val.num = (l * r) * val.den
      [] op = "Div" -> val.num * r = l * val.den
      [] op = "Pow" -> val.num = IntPow(l, r) * val.den

\* the truth value that the comparison operator gives
Holds(op, l, r) ==
    CASE op = "Eq" -> l = r
      [] op = "LtE" -> l <= r

\* C6: lowering a binary arithmetic or comparison expression between two
\* literals yields exactly one literal descriptor, whose value is the operator
\* applied to the two literals; never two descriptors, never a call.
C6_LiteralsFolded ==
    status # "run" =>
        LET op == IF expr.node = "BinOp" THEN expr.op ELSE expr.ops[1]
            l == expr.left.n
            r == IF expr.node = "BinOp" THEN expr.right.n
                 ELSE expr.comparators[1].n
        IN Defined(op, l, r) =>
              /\ status = "done"
              /\ Len(descs) = 1
              /\ IsLiteral(descs[1])
              /\ IF expr.node = "BinOp"
                 THEN IsArith(descs[1].value, op, l, r)
                 ELSE descs[1].value = [bool |-> Holds(op, l, r)]

(***************************************************************************)
(* Loops                                                                   *)
(***************************************************************************)
\* the variables read or written in the scopes that enclose the top frame,
\* the top frame included
UsedOutside ==
    UNION {stack[k].wrote \cup stack[k].refd \cup
           (IF stack[k].kind = "else"
            THEN stack[k].ifWrote \cup stack[k].ifRefd ELSE {}) :
             k \in 1..Len(stack)}

\* C7: after a for-loop is lowered, the enclosing scope has the lastDefs and
\* the nextDefs it had just after the header of the loop was lowered, and a
\* variable read or written inside the body of the loop only has no entry in
\* either.
C7_LoopScopeIsolated ==
    (status = "run" /\ attempt.stmt = "EndFor") =>
        /\ heap[Top.state.lastDefs] = lastFor.snapLast
        /\ heap[Top.state.nextDefs] = lastFor.snapNext
        /\ \A v \in (lastFor.wrote \cup lastFor.refd) \ UsedOutside :
              /\ ~Has(heap[Top.state.lastDefs], v)
              /\ ~Has(heap[Top.state.nextDefs], v)

\* a loop just lowered whose body wrote a variable used nowhere else, in a
\* scope that has versions of other variables
C7_Witness ==
    /\ status = "run" /\ attempt.stmt = "EndFor"
    /\ lastFor.wrote \ UsedOutside # {}
    /\ \E v \in Vars : Has(lastFor.snapNext, v)

\* the targets of the assignments and of the for statements among stmts
TargetsOf(stmts) ==
    {IF stmts[k].stmt = "For" THEN stmts[k].target.id ELSE stmts[k].target :
        k \in {k \in 1..Len(stmts) :
                 stmts[k].stmt \in {"Assign", "AnnAssign", "For"}}}

NoDuplicates(s) == \A i, j \in 1..Len(s) : i # j => s[i] # s[j]

\* C8 as stated: the input list of a loop plate, and that of its call record,
\* holds exactly the variables written in the body of the loop, the index
\* variable excluded, each once.
C8_InputIsWritten ==
    lastFor.valid =>
        /\ Range(lastFor.loopFn.input) =
              TargetsOf(lastFor.stmts) \ {lastFor.loopFn.index_variable}
        /\ NoDuplicates(lastFor.loopFn.input)
        /\ lastFor.loopCall.inputs = lastFor.loopFn.input

\* C8 as amended: the input list of a loop plate, and that of its call
\* record, holds exactly the variables that the scope of the loop body read
\* or wrote (the condition variables and the variables merged by the ifs of
\* the body among them), the index variable excluded, each once.
C8_InputIsReadOrWritten ==
    lastFor.valid =>
        /\ Range(lastFor.loopFn.input) =
              (lastFor.wrote \cup lastFor.refd) \ {lastFor.loopFn.index_variable}
        /\ NoDuplicates(lastFor.loopFn.input)
        /\ lastFor.loopCall.inputs = lastFor.loopFn.input

\* a loop whose body read and wrote a variable, read the index variable, and
\* read a variable that it did not write
C8_Witness ==
    /\ lastFor.valid
    /\ lastFor.loopFn.index_variable \in lastFor.refd
    /\ lastFor.wrote \cap lastFor.refd # {}
    /\ lastFor.refd \ (lastFor.wrote \cup {lastFor.loopFn.index_variable}) # {}

\* the descriptor of a bound of range that is a number or a name
BoundDescriptor(node) ==
    IF node.node = "Num" THEN Literal(PyInt(node.n))
    ELSE VarDesc(node.id, Get(lastFor.snapLast, node.id))

\* the statements of the body are assignments and call statements
StraightLine(stmts) ==
    \A k \in 1..Len(stmts) :
        /\ stmts[k].stmt \in {"Assign", "AnnAssign", "Expr"}
        /\ stmts[k].stmt = "Expr" => stmts[k].value.node = "Call"

\* C9: lowering a for-loop with index variable i over range(a, b), each bound
\* lowering to one descriptor, gives exactly one loop_plate function, with
\* index_variable i, index_iteration_range {start: a, end: b} and the records
\* of the loop body as its body, and exactly one call record in the enclosing
\* fragment, which names the plate; for i in range(1, 5): x = x + i gives a
\* plate whose input has x and has not i.
C9_LoopPlate ==
    lastFor.valid =>
        LET plate == lastFor.loopFn
            a == lastFor.iter.args[1]
            b == lastFor.iter.args[2]
        IN /\ lastFor.iter.node = "Call" /\ lastFor.iter.func = "range"
           /\ Len(lastFor.iter.args) = 2
           /\ plate.type = "loop_plate"
           /\ Name(plate.index_variable) = lastFor.target
           /\ plate.index_iteration_range =
                 [start |-> BoundDescriptor(a), end |-> BoundDescriptor(b)]
           /\ Cardinality({k \in 1..Len(lastFor.functions) :
                             lastFor.functions[k].name = plate.name}) = 1
           /\ lastFor.fragment = <<lastFor.loopCall>>
           /\ lastFor.loopCall.name = plate.name
           /\ plate.body = lastFor.loopBody
           /\ StraightLine(lastFor.stmts) =>
                 /\ Len(plate.body) = Len(lastFor.stmts)
                 /\ \A k \in 1..Len(lastFor.stmts) :
                       IF lastFor.stmts[k].stmt = "Expr"
                       THEN plate.body[k].function = lastFor.stmts[k].value.func
                       ELSE plate.body[k].output.variable = lastFor.stmts[k].target
           /\ (/\ a = Num(1) /\ b = Num(5)
               /\ lastFor.stmts =
                     <<[stmt |-> "Assign", target |-> "x",
                        value |-> BinOp(Name("x"), "Add", Name("i"))]>>)
              => plate.input = <<"x">>

\* for i in range(1, 5): x = x + i, lowered
C9_Witness ==
    /\ lastFor.valid
    /\ lastFor.target = Name("i")
    /\ lastFor.iter = Call("range", <<Num(1), Num(5)>>)
    /\ lastFor.stmts = <<[stmt |-> "Assign", target |-> "x",
                          value |-> BinOp(Name("x"), "Add", Name("i"))]>>
    /\ lastFor.loopFn.index_iteration_range =
          [start |-> Literal(PyInt(1)), end |-> Literal(PyInt(5))]

\* iter is a call of range with two arguments
RangeOfTwo(iter) ==
    iter.node = "Call" /\ iter.func = "range" /\ Len(iter.args) = 2

\* a bound of the range call is a literal
HasLiteralBound(iter) ==
    RangeOfTwo(iter) /\ \E k \in 1..2 : iter.args[k].node = "Num"

\* C10: a for-loop over a range call with a literal bound is rejected with
\* a fatal error; no loop plate and no call record is emitted for it.
C10_LiteralBoundRejected ==
    /\ (attempt.stmt = "For" /\ HasLiteralBound(attempt.iter)) => status = "failed"
    /\ lastFor.valid => ~HasLiteralBound(lastFor.iter)

(***************************************************************************)
(* The context of a loop body                                              *)
(***************************************************************************)
\* no event of ev before the j-th is a write to the variable of the j-th
NoWriteBefore(ev, j) ==
    \A i \in 1..(j - 1) : ~(ev[i].op = "w" /\ ev[i].var = ev[j].var)

\* no event of ev before the j-th is about the variable of the j-th
NoTouchBefore(ev, j) == \A i \in 1..(j - 1) : ev[i].var # ev[j].var

\* C11: in the body of a loop the first write to a variable has version 0,
\* and a read of a variable before its first write in the loop has version
\* -1, whatever versions the variable has in the enclosing scope.  The
\* branches of an if of the loop body are part of the body.
C11_LoopBaseline ==
    \A k \in 1..Len(stack) :
        LET ev == stack[k].ev IN
        /\ stack[k].kind = "loop" =>
              \A j \in 1..Len(ev) :
                  /\ (ev[j].op = "r" /\ NoWriteBefore(ev, j)) => ev[j].ver = -1
                  /\ (ev[j].op = "w" /\ ev[j].by = "stmt" /\ NoWriteBefore(ev, j))
                     => ev[j].ver = 0
        /\ (stack[k].kind \in {"then", "else"} /\ stack[k - 1].kind = "loop") =>
              \A j \in 1..Len(ev) :
                  (/\ NoTouchBefore(ev, j)
                   /\ ev[j].var \notin stack[k - 1].wrote \cup stack[k - 1].refd
                   /\ ev[j].var \notin stack[k].ifWrote)
                  => ev[j].ver = IF ev[j].op = "r" THEN -1 ELSE 0

\* the body of a loop that read and then wrote a variable of which the
\* enclosing scope has a version higher than 0
C11_Witness ==
    /\ status = "run" /\ stack # <<>> /\ Top.kind = "loop"
    /\ \E i, j \in 1..Len(Top.ev) :
          /\ i < j
          /\ Top.ev[i].op = "r" /\ Top.ev[j].op = "w"
          /\ Top.ev[i].var = Top.ev[j].var
          /\ Has(Top.snapLast, Top.ev[i].var)
          /\ Get(Top.snapLast, Top.ev[i].var) > 0

(***************************************************************************)
(* Nodes without a handler                                                 *)
(***************************************************************************)
\* the classes of expression nodes that genPgm has a handler for
HandledExprs == {"Num", "Name", "UnaryOp", "BinOp", "Compare", "Call"}

\* the statement tok holds, as its expression, a node without a handler
HoldsUnhandled(tok) ==
    "value" \in DOMAIN tok /\ tok.value.node \notin HandledExprs

\* C12: lowering a node whose kind has no handler is fatal: the translation
\* never continues past such a node, so no statement that holds one is among
\* the statements lowered, and no document is produced from one.
C12_UnhandledIsFatal ==
    status = "done" => \A k \in 1..Len(tree) : ~HoldsUnhandled(tree[k])

(***************************************************************************)
(* Output of a failed run                                                  *)
(***************************************************************************)
\* C13: when a translation has failed with a fatal error no output has been
\* produced: there is no document, and the lambda file holds no lambda that
\* the failed run emitted.
C13_NoOutputOnFailure ==
    status = "failed" => functions = <<>> /\ lambdaFile = <<>>

(***************************************************************************)
(* Ownership of the dicts of nested scopes                                 *)
(***************************************************************************)
\* the state that encloses the k-th frame
Enclosing(k) == IF k = 1 THEN RootState ELSE stack[k - 1].state

\* the frames of the nested scopes: function bodies, then branches, else
\* branches and loop bodies (the else part of a for statement is lowered
\* under the state of the statement itself)
NestedScopes ==
    {k \in 1..Len(stack) : stack[k].kind \in {"fn", "then", "else", "loop"}}

\* C14 as stated: every nested scope (then branch, else branch, loop body,
\* function body) works on copies of the dicts of its parent: lowering the
\* nested statements never changes lastDefs, nextDefs or varTypes of the
\* parent, and no dict of the then branch is the same object as the dict of
\* the else branch.
C14_ValueCopies ==
    \A k \in NestedScopes :
        /\ heap[Enclosing(k).lastDefs] = stack[k].snapLast
        /\ heap[Enclosing(k).nextDefs] = stack[k].snapNext
        /\ heap[Enclosing(k).varTypes] = stack[k].snapTypes
        /\ stack[k].kind = "then" =>
              /\ stack[k].state.lastDefs # stack[k].elseState.lastDefs
              /\ stack[k].state.nextDefs # stack[k].elseState.nextDefs
              /\ stack[k].state.varTypes # stack[k].elseState.varTypes

\* C14 as amended: lowering nested statements never changes lastDefs of the
\* parent, and lastDefs of a nested scope is an object of its own (the two
\* branches of an if have different ones).  A function body has its own
\* copies of nextDefs and varTypes, and a loop body its own nextDefs; the
\* branches of an if share nextDefs and varTypes with their parent and with
\* each other, and a loop body shares varTypes with its parent.
C14_SharedNextDefs ==
    \A k \in NestedScopes :
        LET p == Enclosing(k)
            f == stack[k]
        IN /\ heap[p.lastDefs] = f.snapLast
           /\ f.state.lastDefs # p.lastDefs
           /\ f.kind \in {"fn", "loop"} =>
                 /\ heap[p.nextDefs] = f.snapNext
                 /\ f.state.nextDefs # p.nextDefs
           /\ f.kind = "fn" =>
                 /\ heap[p.varTypes] = f.snapTypes
                 /\ f.state.varTypes # p.varTypes
           /\ f.kind \in {"then", "else", "loop"} =>
                 f.state.varTypes = p.varTypes
           /\ f.kind \in {"then", "else"} => f.state.nextDefs = p.nextDefs
           /\ f.kind = "then" =>
                 /\ f.state.lastDefs # f.elseState.lastDefs
                 /\ f.state.nextDefs = f.elseState.nextDefs
                 /\ f.state.varTypes = f.elseState.varTypes

\* the else branch of an if, after both branches wrote: nextDefs of the
\* parent is no longer what it was when the if was entered
C14_Witness ==
    /\ status = "run" /\ stack # <<>> /\ Top.kind = "else"
    /\ Top.ifWrote # {} /\ Top.wrote # {}
    /\ heap[Enclosing(Len(stack)).nextDefs] # Top.snapNext
    /\ heap[Enclosing(Len(stack)).lastDefs] = Top.snapLast


(***************************************************************************)
(* C15: the start field of the document is the callee of the first call    *)
(* statement outside any function, and "" when there is none; a statement  *)
(* outside any function adds no function, writes nothing to the lambda     *)
(* file and leaves every version and type table as it was                  *)
(***************************************************************************)
\* the callees of the call statements of stmts, those in either branch of
\* an if included, in the order of the program text
RECURSIVE CallStatements(_)
CallStatements(stmts) ==
    IF stmts = <<>> THEN <<>>
    ELSE LET s == Head(stmts)
             here == IF s.node = "Expr" /\ s.value.node = "Call"
                     THEN <<s.value.func>>
                     ELSE IF s.node = "If"
                     THEN CallStatements(s.body) \o CallStatements(s.orelse)
                     ELSE <<>>
         IN here \o CallStatements(Tail(stmts))

\* the same without the else branches: the callees of the call statements
\* that are statements of the module or lie in the then branch of an if
RECURSIVE ThenCallStatements(_)
ThenCallStatements(stmts) ==
    IF stmts = <<>> THEN <<>>
    ELSE LET s == Head(stmts)
             here == IF s.node = "Expr" /\ s.value.node = "Call"
                     THEN <<s.value.func>>
                     ELSE IF s.node = "If" THEN ThenCallStatements(s.body)
                     ELSE <<>>
         IN here \o ThenCallStatements(Tail(stmts))

ModuleStatements ==
    LET ks == TopLevelTokens
        RECURSIVE Collect(_)
        Collect(k) == IF k > Len(tree) THEN <<>>
                      ELSE (IF k \in ks THEN <<tree[k].top>> ELSE <<>>)
                           \o Collect(k + 1)
    IN Collect(1)

TopLevelStep ==
    /\ Len(tree') = Len(tree) + 1
    /\ tree'[Len(tree')].stmt = "TopLevel"

\* C15 as stated: a call statement in a top-level if counts wherever in the
\* if it sits.
C15_StartIsFirstCallOfAnyBranch ==
    /\ [](status = "done" =>
            /\ pgm.valid
            /\ LET calls == CallStatements(ModuleStatements)
               IN pgm.start = IF calls = <<>> THEN "" ELSE calls[1])
    /\ [][TopLevelStep =>
            UNCHANGED <<heap, stack, fnNames, functions, lambdaFile>>]_vars

\* C15 as amended: a call statement in a top-level if counts when it sits
\* in the then branch; the else branch of a top-level if is not looked at.
C15_StartIsFirstCall ==
    /\ [](status = "done" =>
            /\ pgm.valid
            /\ LET calls == ThenCallStatements(ModuleStatements)
               IN pgm.start = IF calls = <<>> THEN "" ELSE calls[1])
    /\ [][TopLevelStep =>
            UNCHANGED <<heap, stack, fnNames, functions, lambdaFile>>]_vars

\* a document of a module with a function, then an if with a call in its
\* else branch only, then a call statement: start is the later call
C15_Witness ==
    /\ status = "done"
    /\ functions # <<>>
    /\ CallStatements(ModuleStatements) = <<"stop", "main">>
    /\ pgm.start = "main"
    /\ \E k \in TopLevelTokens :
          /\ tree[k].top.node = "If"
          /\ tree[k].top.orelse # <<>>
          /\ \E j \in 1..(k - 1) : tree[j].stmt = "FunctionDef"


(***************************************************************************)
(* C16: a function definition is lowered in a context that inherits        *)
(* nothing from what was lowered before it                                 *)
(***************************************************************************)
\* the scope of stack[k] is a loop body or lies inside one
InLoop(k) == \E i \in 1..k : stack[i].kind = "loop"

\* the variable of the j-th event of stack[k] was written before that event,
\* in this scope or in a scope enclosing it
WrittenEarlier(k, j) ==
    \/ ~NoWriteBefore(stack[k].ev, j)
    \/ \E i \in 1..(k - 1) : stack[k].ev[j].var \in stack[i].wrote

\* ... or in the then branch of an if whose else branch is being lowered
WrittenInThen(k, j) ==
    \E i \in 1..k : /\ stack[i].kind = "else"
                    /\ stack[k].ev[j].var \in stack[i].ifWrote

\* the variables of the program text; the condition variables that the If
\* handler makes up are written once, with version 0
ProgramVars == Vars \cup IndexVars

FirstVersions(k) ==
    LET ev == stack[k].ev IN
    \A j \in 1..Len(ev) :
        ev[j].var \in ProgramVars =>
        /\ (ev[j].op = "r" /\ ~WrittenEarlier(k, j)) => ev[j].ver = 0
        /\ (/\ ev[j].op = "w" /\ ev[j].by = "stmt"
            /\ ~WrittenEarlier(k, j) /\ ~WrittenInThen(k, j))
           => ev[j].ver = 1

\* the tables of the module-level state never change, so every function
\* starts from empty tables whatever was lowered before it
RootTablesEmpty ==
    /\ heap[RootState.lastDefs] = EmptyDict
    /\ heap[RootState.nextDefs] = EmptyDict
    /\ heap[RootState.varTypes] = EmptyDict
    /\ \A k \in 1..Len(stack) :
          stack[k].kind = "fn" =>
              /\ k = 1
              /\ stack[k].snapLast = EmptyDict
              /\ stack[k].snapNext = EmptyDict
              /\ stack[k].snapTypes = EmptyDict

\* no if and no loop of the function being lowered has been completed
NoClosedScope ==
    \A k \in 1..Len(tree) :
        tree[k].stmt \in {"EndIf", "EndFor"} =>
            \E m \in (k + 1)..Len(tree) : tree[m].stmt = "FunctionDef"

\* C16 as stated: in every top-level function the first read of any
\* variable yields version 0 and its first write version 1, in whichever
\* scope of the function they occur, and nothing lowered before the function
\* changes that.
C16_FirstVersionsEverywhere ==
    /\ RootTablesEmpty
    /\ (status = "run" /\ NoClosedScope) =>
           \A k \in 1..Len(stack) : FirstVersions(k)

\* C16, outside loop bodies: every function starts from the empty tables of
\* the module-level state whatever was lowered before it, and a read of a
\* variable not written before in the function yields version 0, its first
\* write version 1, wherever outside a loop body they occur (the function's
\* own statements, the conditions and the branches of its ifs, the heads of
\* its loops).  Inside a loop body the versions start at -1 and 0 instead.
C16_FreshFunctionContext ==
    /\ RootTablesEmpty
    /\ status = "run" =>
           \A k \in 1..Len(stack) : ~InLoop(k) => FirstVersions(k)

\* the second function of a module, after a function that wrote x twice,
\* reads x and then writes it
C16_Witness ==
    /\ status = "run" /\ Len(stack) = 1 /\ nFns = 2
    /\ \E k \in 1..Len(tree) :
          /\ tree[k].stmt = "EndFunctionDef"
          /\ \E a, b \in 1..(k - 1) :
                /\ a < b
                /\ tree[a].stmt = "Assign" /\ tree[a].target = "x"
                /\ tree[b].stmt = "Assign" /\ tree[b].target = "x"
    /\ \E i, j \in 1..Len(Top.ev) :
          /\ i < j
          /\ Top.ev[i].var = "x" /\ Top.ev[i].op = "r" /\ Top.ev[i].ver = 0
          /\ Top.ev[j].var = "x" /\ Top.ev[j].op = "w" /\ Top.ev[j].ver = 1


(***************************************************************************)
(* C17: any two distinct if statements of one function have different      *)
(* condition variable names (the ifs may follow each other, be nested in   *)
(* each other's branches, or stand in the same or in different loops), and *)
(* each condition variable is registered with domain boolean               *)
(***************************************************************************)
CondNames == {"IF_" \o ToString(n) : n \in 0..MaxCompound}

\* the i-th emitted function computes the condition of an if: it assigns a
\* condition variable and has a body (a decision function has none)
IsCondition(i) ==
    /\ "target" \in DOMAIN functions[i]
    /\ functions[i].target \in CondNames
    /\ "body" \in DOMAIN functions[i]

IsContainer(i) == functions[i].type = "container"

\* the i-th and the j-th emitted function belong to the same function
\* definition: no container was emitted from the one to the other
SameFunction(i, j) == \A m \in i..j : ~IsContainer(m)

C17_FreshConditionNames ==
    /\ \A i, j \in 1..Len(functions) :
          (i < j /\ IsCondition(i) /\ IsCondition(j) /\ SameFunction(i, j))
          => functions[i].target # functions[j].target
    /\ \A k \in 1..Len(stack) :
          stack[k].kind \in {"then", "else"} =>
              /\ Has(heap[stack[k].state.varTypes], stack[k].condOutput.variable)
              /\ Get(heap[stack[k].state.varTypes],
                     stack[k].condOutput.variable) = "boolean"


(***************************************************************************)
(* C18: lowering an annotated assignment whose value is a list only        *)
(* registers the domain of the target in varTypes: it emits no function    *)
(* and no body record, writes nothing to the lambda file, and leaves the   *)
(* lastDefs and the nextDefs of every variable as they were                *)
(***************************************************************************)
DeclarationStep ==
    /\ Len(tree') = Len(tree) + 1
    /\ tree'[Len(tree')].stmt = "AnnAssignList"

C18_DeclarationOnlyRegisters ==
    [][DeclarationStep =>
          LET st == Top.state IN
          /\ functions' = functions
          /\ lambdaFile' = lambdaFile
          /\ stack'[Len(stack')].body = Top.body
          /\ Has(heap'[st.varTypes], tree'[Len(tree')].target)
          /\ heap'[st.lastDefs] = heap[st.lastDefs]
          /\ heap'[st.nextDefs] = heap[st.nextDefs]]_vars


(***************************************************************************)
(* C19: the merge of an if/else makes a decision function for a variable   *)
(* exactly when its version at the end of the then branch or of the else   *)
(* branch differs from its version before the if; a variable that is only  *)
(* read in a branch, and the condition variable of an if nested in a       *)
(* branch, get none                                                        *)
(***************************************************************************)
\* the version a read of var yields under the table defs of the last if
VersionUnder(defs, var) ==
    IF Has(defs, var) THEN Get(defs, var) ELSE lastIf.lastDefDefault

C19_DecisionIffVersionDiffers ==
    lastIf.valid =>
        \A var \in KeySet(lastIf.startDefs) \cup KeySet(lastIf.ifDefs)
                     \cup KeySet(lastIf.elseDefs) :
            LET baseline == VersionUnder(lastIf.startDefs, var)
            IN (DecisionsFor(var) # {}) <=>
                  \/ VersionUnder(lastIf.ifDefs, var) # baseline
                  \/ VersionUnder(lastIf.elseDefs, var) # baseline


(***************************************************************************)
(* C20: lowering is deterministic in its ordered output: the functions     *)
(* sequence and the body sequence of a tree are the same in every run,     *)
(* also when one if/else merges several variables                          *)
(***************************************************************************)
C20_DeterministicOrder ==
    (status = "run" /\ stack # <<>> /\ Top.kind = "else") =>
        \A o1, o2 \in MergeOrders :
            /\ MergeOutcome(o1).fns = MergeOutcome(o2).fns
            /\ MergeOutcome(o1).body = MergeOutcome(o2).body


(***************************************************************************)
(* C21: a function whose parameters all carry a recognized annotation and  *)
(* whose body uses only supported constructs always yields a container:    *)
(* every variable with a version entry in the scope of the function (loop  *)
(* index variables, targets of plain assignments and condition variables   *)
(* included) has a registered domain, so that the container can list it    *)
(***************************************************************************)
\* the statements lowered so far hold no node without a handler
OnlySupported == \A k \in 1..Len(tree) : ~HoldsUnhandled(tree[k])

C21_EveryVariableHasDomain ==
    (status = "run" /\ Len(stack) = 1 /\ Top.kind = "fn" /\ OnlySupported) =>
        \A var \in KeySet(heap[Top.state.lastDefs]) :
            Has(heap[Top.state.varTypes], var)


(***************************************************************************)
(* C22: for every if/else, a write to a variable in the then branch and a  *)
(* write to it in the else branch never get the same version, and the      *)
(* version that the merge gives the variable in the enclosing scope is     *)
(* greater than every version of it assigned in either branch and than its *)
(* version before the if                                                   *)
(***************************************************************************)
BranchWritesDiffer ==
    \A k \in 1..Len(stack) :
        stack[k].kind = "else" =>
            \A i \in 1..Len(stack[k].ifEv) : \A j \in 1..Len(stack[k].ev) :
                (/\ stack[k].ifEv[i].op = "w" /\ stack[k].ev[j].op = "w"
                 /\ stack[k].ifEv[i].var = stack[k].ev[j].var)
                => stack[k].ifEv[i].ver # stack[k].ev[j].ver

MergeVersionIsNew ==
    lastIf.valid =>
        \A d \in 1..Len(lastIf.decisions) :
            LET out == lastIf.decisions[d].output IN
            /\ out.index > VersionUnder(lastIf.startDefs, out.variable)
            /\ out.index > VersionUnder(lastIf.ifDefs, out.variable)
            /\ out.index > VersionUnder(lastIf.elseDefs, out.variable)

C22_MergeVersionsFresh == BranchWritesDiffer /\ MergeVersionIsNew


(***************************************************************************)
(* C23: in every emitted body record that has an output reference {x, v}   *)
(* (assignments, annotated assignments and decisions, in the body of a     *)
(* function, of a branch or of a loop), every input reference to x has a   *)
(* version less than v: no record reads the version it writes              *)
(***************************************************************************)
\* the record rec writes a variable: the output of a call record is empty
HasOutput(rec) == "output" \in DOMAIN rec /\ rec.output # <<>>

\* the variable an input of a record refers to: "variable" in a plain
\* reference, "name" in the reference to an argument of a call; <<>> for an
\* input that names a function
InputVariable(ip) ==
    IF "index" \notin DOMAIN ip THEN <<>>
    ELSE IF "variable" \in DOMAIN ip THEN <<ip.variable>> ELSE <<ip.name>>

ReadsBelowWrite(rec) ==
    HasOutput(rec) =>
        \A i \in 1..Len(rec.input) :
            InputVariable(rec.input[i]) = <<rec.output.variable>>
            => rec.input[i].index < rec.output.index

C23_NoRecordReadsItsOutput ==
    \A k \in 1..Len(stack) :
        \A r \in 1..Len(stack[k].body) : ReadsBelowWrite(stack[k].body[r])


(***************************************************************************)
(* Assignments of constants: functions whose statements assign literals,   *)
(* signed literals, operations between two literals, and expressions that  *)
(* read a variable or keep two literals.                                   *)
(***************************************************************************)
LitValues ==
    {Num(1),
     UnaryOp("USub", Num(1)), UnaryOp("UAdd", Num(1)),
     BinOp(Num(1), "Sub", Num(2)), BinOp(Num(1), "Div", Num(3)),
     BinOp(Num(1), "Div", Num(0)),
     UnaryOp("USub", BinOp(Num(1), "Add", Num(2))),
     UnaryOp("USub", Name("x")),
     BinOp(Num(1), "Add", UnaryOp("USub", Num(2)))}

\* right-hand sides of the annotated assignments of constants
AnnLitValues == {UnaryOp("USub", Num(1)), BinOp(Num(1), "Sub", Num(2))}

NextLit ==
    \/ \E d \in FnDefs : FunctionDef_Enter(d.name, d.args)
    \/ FunctionDef_Exit
    \/ \E v \in LitValues : Assign("x", v)
    \/ \E a \in Annotations, v \in AnnLitValues : AnnAssign("x", a, v)
    \/ Finish

SpecLit == Init /\ [][NextLit]_vars

\* the value Python gives an expression made of literals: -v and +v for the
\* unary operators, the operator applied to the two literals for a binary one
PyNeg(val) == [val EXCEPT !.num = -@]

RECURSIVE PyEval(_)
PyEval(node) ==
    CASE node.node = "Num" -> PyInt(node.n)
      [] node.node = "UnaryOp" ->
            IF node.op = "USub" THEN PyNeg(PyEval(node.operand))
            ELSE PyEval(node.operand)
      [] node.node = "BinOp" ->
            ApplyBinop(node.op, node.left.n, node.right.n).val

\* the statement lowered last is an assignment, and the function appended
\* last is the one made for it
LastIsAssignment ==
    /\ status = "run" /\ tree # <<>> /\ functions # <<>>
    /\ tree[Len(tree)].stmt \in {"Assign", "AnnAssign"}

(***************************************************************************)
(* C24: when the body of the function of an assignment is a literal        *)
(* payload, the value of the payload is the value of the right-hand        *)
(* expression, also when that expression is a unary operator applied to a  *)
(* literal or an operation between two literals                            *)
(***************************************************************************)
C24_PayloadIsValue ==
    LastIsAssignment =>
        LET fn == functions[Len(functions)]
            value == tree[Len(tree)].value
        IN fn.body.type = "literal" => fn.body.value = PyStr(PyEval(value))

====
